---- MODULE Spec2Model ----
(***************************************************************************)
(* CivicSentinel API server (src/server.js): the fact-checked search       *)
(* pipeline of POST /api/search, as a state machine.                       *)
(*                                                                         *)
(* Strings are modelled as sequences of tokens; the string a sequence      *)
(* stands for is the concatenation of its tokens, so string equality is    *)
(* sequence equality and startsWith/includes look at tokens.               *)
(***************************************************************************)
EXTENDS Integers, Sequences, FiniteSets, TLC

(***************************************************************************)
(* Bounds of the model.                                                    *)
(***************************************************************************)
\* Longest candidate array the upstream model answers with.
MaxCand == 2
\* Most search-result items in the upstream tool-result block.
MaxCit == 1
\* The clock runs over this many rate-limit windows after the first.
MaxWindows == 2
\* Most labels in the host of a URL handed to extractDomain.
MaxHost == 3

(***************************************************************************)
(* URL strings.  A URL is a token sequence:                                *)
(*   <<scheme>> \o host tokens \o <<path>>? \o <<query>>?                  *)
(* e.g. <<"https://", "www.", "example.com", "/a", "?utm=1">>; there may   *)
(* be no host token, as in <<"https://", "/a">> for "https:///a".          *)
(***************************************************************************)
HttpSchemes == {"https://", "http://"}
OtherSchemes == {"ftp://"}
HostTokens == {"www.", "example.com", "EXAMPLE.COM", "news.", "other.org"}
PathTokens == {"/", "/a", "/b", "/x"}
QueryTokens == {"?utm=1"}

\* String.prototype.toLowerCase on one host token (WHATWG URL lowercases hosts).
Lower(tok) == IF tok = "EXAMPLE.COM" THEN "example.com" ELSE tok

\* Index of the last token of the host part (1 when there is no host token).
RECURSIVE HostEnd(_, _)
HostEnd(u, k) ==
    IF k + 1 <= Len(u) /\ u[k + 1] \in HostTokens THEN HostEnd(u, k + 1) ELSE k

\* new URL(u) succeeds.  The three schemes are special schemes of the URL
\* standard: the parser skips the slashes that follow the scheme and reads
\* the host up to the next "/" or "?".  So a scheme followed at once by a path
\* other than "/" parses, the first segment of the path being the host
\* ("https:///a" is https://a/); with nothing, "/" or a query after the
\* scheme the host is empty and the constructor throws TypeError, as it does
\* for a string without a scheme.
Parses(u) ==
    /\ Len(u) >= 2
    /\ u[1] \in HttpSchemes \cup OtherSchemes
    /\ IF HostEnd(u, 1) >= 2
       THEN LET rest == SubSeq(u, HostEnd(u, 1) + 1, Len(u))
            IN \/ rest = <<>>
               \/ Len(rest) = 1 /\ rest[1] \in PathTokens \cup QueryTokens
               \/ Len(rest) = 2 /\ rest[1] \in PathTokens /\ rest[2] \in QueryTokens
       ELSE /\ u[2] \in PathTokens \ {"/"}
            /\ \/ Len(u) = 2
               \/ Len(u) = 3 /\ u[3] \in QueryTokens

\* new URL(u).hostname: the host, lowercased, as a token sequence; for a URL
\* without host tokens the path token without its slash.
hostname(u) ==
    IF HostEnd(u, 1) >= 2
    THEN [j \in 1..(HostEnd(u, 1) - 1) |-> Lower(u[j + 1])]
    ELSE <<CASE u[2] = "/a" -> "a" [] u[2] = "/b" -> "b" [] OTHER -> "x">>

\* new URL(u).pathname: the path, "/" when the URL has none or when its path
\* token was read as the host; the query is dropped.
pathname(u) ==
    LET k == HostEnd(u, 1) + 1
    IN IF HostEnd(u, 1) >= 2 /\ k <= Len(u) /\ u[k] \in PathTokens THEN u[k] ELSE "/"

\* String.prototype.replace(tok, '') with a string pattern: only the FIRST
\* occurrence is removed, wherever it is.
RECURSIVE ReplaceFirst(_, _)
ReplaceFirst(s, tok) ==
    IF s = <<>> THEN <<>>
    ELSE IF Head(s) = tok THEN Tail(s)
    ELSE <<Head(s)>> \o ReplaceFirst(Tail(s), tok)

\* src/server.js extractDomain.
Unknown == <<"Unknown">>
extractDomain(u) ==
    IF Parses(u) THEN ReplaceFirst(hostname(u), "www.") ELSE Unknown

\* item.url.startsWith('http'): the string begins with the four letters http.
\* The token "http" stands for those letters followed by no "://".
startsWithHttp(u) == Len(u) >= 1 /\ u[1] \in HttpSchemes \cup {"http"}

\* new URL(u).hostname + new URL(u).pathname, used as the lookup key.
hostPath(u) == hostname(u) \o <<pathname(u)>>

\* Line 414: the candidate's key, the raw url when the URL does not parse.
urlKey(u) == IF Parses(u) THEN hostPath(u) ELSE u

\* fetch(url) sends a request only for a URL that parses and has an http(s)
\* scheme; for anything else it rejects with TypeError.
Fetchable(u) == Parses(u) /\ u[1] \in HttpSchemes

(***************************************************************************)
(* JSON values of the model's answer.  An element of the candidate array   *)
(* is a record: kind "object" (with title and url members), "array" (a     *)
(* nested array, which has no such members) or "null".  urlKind says what  *)
(* the url member is: a "string", "absent", or a non-zero "number".  The   *)
(* category and severity members are strings, "" when the member is        *)
(* missing (or holds another falsy value).                                 *)
(***************************************************************************)
NoElem ==
    [kind |-> "none", title |-> "", url |-> <<>>, urlKind |-> "absent",
     category |-> "", severity |-> ""]
\* An object with title, url, category and severity members.
ObjCS(title, url, category, severity) ==
    [kind |-> "object", title |-> title, url |-> url, urlKind |-> "string",
     category |-> category, severity |-> severity]
\* An object with title and url members only.
Obj(title, url) == ObjCS(title, url, "", "")
NullElem == [NoElem EXCEPT !.kind = "null"]
ArrayElem == [NoElem EXCEPT !.kind = "array"]
NumUrlElem == [NoElem EXCEPT !.kind = "object", !.title = "N", !.urlKind = "number"]

\* The URLs the inputs are built from.
uA == <<"https://", "example.com", "/a">>
uANorm == <<"http://", "EXAMPLE.COM", "/a", "?utm=1">>
uWwwB == <<"https://", "www.", "example.com", "/b">>
uOther == <<"https://", "other.org", "/x">>
uGarbage == <<"http", "garbage">>
uFtp == <<"ftp://", "example.com", "/a">>
uRel == <<"example.com", "/a">>

\* Candidate elements the upstream model may put in its array.
CandElems ==
    { Obj("A", uA), Obj("An", uANorm), Obj("B", uWwwB), Obj("X", uOther),
      Obj("G", uGarbage), Obj("F", uFtp), Obj("", <<>>), NullElem, NumUrlElem }

\* All sequences over S of length at most n.
SeqsUpTo(S, n) == UNION { [1..k -> S] : k \in 0..n }

CandSeqs == SeqsUpTo(CandElems, MaxCand)

(***************************************************************************)
(* The model's text, a sequence of tokens.  A token is a record: tok names *)
(* the token, el is the JSON value of a "value" token (the value together  *)
(* with the comma that separates it from its neighbour).                   *)
(***************************************************************************)
Tok(s) == [tok |-> s, el |-> NoElem]
Val(e) == [tok |-> "value", el |-> e]
LBr == Tok("[")
RBr == Tok("]")
\* The markdown code-fence markers (three backquotes, with and without "json").
FenceJson == Tok("<fence>json")
Fence == Tok("<fence>")
Sentinel == Tok("\"no_results\"")
Prose == Tok("prose")
Newline == Tok("\n")

Vals(cs) == [k \in 1..Len(cs) |-> Val(cs[k])]
Fenced(cs) == <<FenceJson, LBr>> \o Vals(cs) \o <<RBr, Fence>>
ShortCandSeqs == { cs \in CandSeqs : Len(cs) <= 1 }

Texts ==
    { Fenced(cs) : cs \in CandSeqs }
    \cup { <<>>, <<Prose>>, <<Sentinel>> }
    \cup { Fenced(cs) \o <<Sentinel>> : cs \in ShortCandSeqs }
    \cup { <<LBr>> \o Vals(cs) \o <<RBr, Prose, RBr>> : cs \in ShortCandSeqs }
    \cup { <<LBr, Prose, RBr, LBr>> \o Vals(cs) \o <<RBr>> : cs \in ShortCandSeqs }
    \cup { <<LBr, LBr>> \o Vals(cs) \o <<RBr>> \o Vals(cs) \o <<RBr>> : cs \in ShortCandSeqs }
    \cup { <<Prose, RBr, LBr>> }

(***************************************************************************)
(* The upstream payload: data.error and data.content, a sequence of        *)
(* blocks.  A search block holds web_search_result items.                  *)
(***************************************************************************)
SearchResult(title, url) ==
    [type |-> "web_search_result", title |-> title, url |-> url,
     page_snippet |-> "snip", encrypted_content |-> FALSE, page_age |-> ""]
OtherResult ==
    [type |-> "web_search_error", title |-> "err", url |-> uA,
     page_snippet |-> "", encrypted_content |-> FALSE, page_age |-> ""]
ResultItems ==
    { SearchResult("A", uA), SearchResult("R", uRel), SearchResult("E", <<>>),
      SearchResult("", uWwwB), OtherResult }
ResultSeqs == SeqsUpTo(ResultItems, MaxCit)
\* Longer result lists, for the answers that hold no candidate array.
LongResultSeqs == SeqsUpTo(ResultItems, MaxCit + 1)

\* contentKind says what block.content is: an "array" (content holds its
\* elements), an "object" that is not iterable (the upstream puts an error
\* object there when the search tool failed), or "falsy" (null, a missing
\* member, an empty string, 0 or false).
TextBlock(text) ==
    [type |-> "text", text |-> text, content |-> <<>>, contentKind |-> "falsy"]
SearchBlock(items) ==
    [type |-> "web_search_tool_result", text |-> <<>>, content |-> items,
     contentKind |-> "array"]
SearchErrorBlock ==
    [type |-> "web_search_tool_result", text |-> <<>>, content |-> <<>>,
     contentKind |-> "object"]
\* A tool-result block whose content is null.
SearchNullBlock ==
    [type |-> "web_search_tool_result", text |-> <<>>, content |-> <<>>,
     contentKind |-> "falsy"]

Payloads ==
    { [error |-> FALSE, content |-> <<SearchBlock(rs), TextBlock(t)>>] :
        rs \in ResultSeqs, t \in Texts }
    \cup { [error |-> FALSE, content |-> <<TextBlock(<<FenceJson, LBr>>), SearchBlock(rs),
                                           TextBlock(Vals(cs) \o <<RBr>>)>>] :
             rs \in ResultSeqs, cs \in ShortCandSeqs }
    \cup { [error |-> FALSE, content |-> <<SearchBlock(rs), TextBlock(t), SearchBlock(rs2)>>] :
             rs \in LongResultSeqs, rs2 \in ResultSeqs, t \in {<<>>, <<Prose>>} }
    \cup { [error |-> FALSE, content |-> <<>>], [error |-> TRUE, content |-> <<>>],
           [error |-> TRUE, content |-> <<SearchBlock(<<SearchResult("A", uA)>>),
                                          TextBlock(Fenced(<<Obj("X", uOther)>>))>>],
           [error |-> FALSE, content |-> <<SearchErrorBlock,
                                           TextBlock(Fenced(<<Obj("X", uOther)>>))>>],
           [error |-> FALSE, content |-> <<SearchNullBlock,
                                           TextBlock(Fenced(<<Obj("X", uOther)>>))>>] }

(***************************************************************************)
(* src/server.js extractCitations (lines 224-242).                         *)
(***************************************************************************)
Citation(item) ==
    [title |-> item.title,
     url |-> item.url,
     snippet |-> IF item.encrypted_content THEN "[Content at source]" ELSE item.page_snippet,
     source |-> extractDomain(item.url),
     publishedDate |-> item.page_age]

\* Variant of CitationsOfItems that keeps only the last of equal results.
RECURSIVE CitationsOfItemsDedup(_)
CitationsOfItemsDedup(items) ==
    IF items = <<>> THEN <<>>
    ELSE (IF /\ Head(items).type = "web_search_result"
             /\ ~\E k \in 1..Len(Tail(items)) : Tail(items)[k] = Head(items)
          THEN <<Citation(Head(items))>> ELSE <<>>)
         \o CitationsOfItemsDedup(Tail(items))

RECURSIVE CitationsOfItems(_)
CitationsOfItems(items) ==
    IF items = <<>> THEN <<>>
    ELSE (IF Head(items).type = "web_search_result" THEN <<Citation(Head(items))>> ELSE <<>>)
         \o CitationsOfItems(Tail(items))

RECURSIVE extractCitations(_)
extractCitations(content) ==
    IF content = <<>> THEN <<>>
    ELSE (IF /\ Head(content).type = "web_search_tool_result"
             /\ Head(content).contentKind # "falsy"
          THEN CitationsOfItems(Head(content).content) ELSE <<>>)
         \o extractCitations(Tail(content))

\* Line 228: `for (const item of block.content)` raises TypeError when the
\* content of a tool-result block is an object that is not iterable.  A block
\* whose content is falsy does not get there (`&& block.content`, line 227).
extractCitationsThrows(content) ==
    \E k \in 1..Len(content) :
        content[k].type = "web_search_tool_result" /\ content[k].contentKind = "object"

(***************************************************************************)
(* Text handling of the search handler (lines 334, 350-357, 380).          *)
(***************************************************************************)
\* allContent.filter(b => b.type === 'text').map(b => b.text)
RECURSIVE textPartsOf(_)
textPartsOf(content) ==
    IF content = <<>> THEN <<>>
    ELSE (IF Head(content).type = "text" THEN <<Head(content).text>> ELSE <<>>)
         \o textPartsOf(Tail(content))

\* allContent.filter(b => b.type === 'web_search_tool_result').length
RECURSIVE searchPartsCount(_)
searchPartsCount(content) ==
    IF content = <<>> THEN 0
    ELSE (IF Head(content).type = "web_search_tool_result" THEN 1 ELSE 0)
         + searchPartsCount(Tail(content))

\* textParts.join('\n')
RECURSIVE joinNewline(_)
joinNewline(parts) ==
    IF parts = <<>> THEN <<>>
    ELSE IF Len(parts) = 1 THEN parts[1]
    ELSE parts[1] \o <<Newline>> \o joinNewline(Tail(parts))

IsFence(t) == t = FenceJson \/ t = Fence
NotFence(t) == ~IsFence(t)
IsSpace(t) == t = Newline

\* String.prototype.trim: white space removed at both ends.
RECURSIVE trimLeft(_)
trimLeft(s) == IF s # <<>> /\ IsSpace(Head(s)) THEN trimLeft(Tail(s)) ELSE s
RECURSIVE trimRight(_)
trimRight(s) ==
    IF s # <<>> /\ IsSpace(s[Len(s)]) THEN trimRight(SubSeq(s, 1, Len(s) - 1)) ELSE s

\* fullText.replace(/```json|```/g, '').trim()
cleanedOf(fullText) == trimRight(trimLeft(SelectSeq(fullText, NotFence)))

\* Variant of includesSentinel that wants the text to be the sentinel alone.
isSentinelOnly(cleaned) == cleaned = <<Sentinel>>

\* cleaned.includes('"no_results"')
includesSentinel(cleaned) == \E k \in 1..Len(cleaned) : cleaned[k] = Sentinel

\* cleaned.match(/\[[\s\S]*\]/): the regular expression is greedy, so the match
\* runs from the first "[" to the LAST "]" after it.  <<>> stands for null.
arrayMatch(cleaned) ==
    LET ls == { k \in 1..Len(cleaned) : cleaned[k] = LBr }
        first == CHOOSE k \in ls : \A j \in ls : k <= j
        rs == { k \in 1..Len(cleaned) : cleaned[k] = RBr /\ k > first }
        last == CHOOSE k \in rs : \A j \in rs : j <= k
    IN IF ls = {} THEN <<>>
       ELSE IF rs = {} THEN <<>>
       ELSE SubSeq(cleaned, first, last)

\* The values between the outer brackets of a JSON array text: white space is
\* skipped, a nested array is one value, any other token is a SyntaxError.
RECURSIVE parseValues(_, _, _, _)
parseValues(toks, k, depth, acc) ==
    IF k > Len(toks) THEN [ok |-> depth = 0, vals |-> acc]
    ELSE IF IsSpace(toks[k]) THEN parseValues(toks, k + 1, depth, acc)
    ELSE IF toks[k].tok = "value"
         THEN parseValues(toks, k + 1, depth,
                          IF depth = 0 THEN Append(acc, toks[k].el) ELSE acc)
    ELSE IF toks[k] = LBr
         THEN parseValues(toks, k + 1, depth + 1,
                          IF depth = 0 THEN Append(acc, ArrayElem) ELSE acc)
    ELSE IF toks[k] = RBr /\ depth > 0
         THEN parseValues(toks, k + 1, depth - 1, acc)
    ELSE [ok |-> FALSE, vals |-> <<>>]

\* JSON.parse(match[0]) for a text that starts with "[" and ends with "]":
\* ok is FALSE when JSON.parse throws SyntaxError.
JSONparse(m) == parseValues(SubSeq(m, 2, Len(m) - 1), 1, 0, <<>>)

(***************************************************************************)
(* The transcript: rawParts is a sequence of parts, rawResponse is         *)
(* rawParts.join('\n\n').  A part is a record naming which line of the     *)
(* handler pushed it and the values interpolated into it.                  *)
(***************************************************************************)
Part(kind, n, text, title, url, source, note) ==
    [kind |-> kind, n |-> n, text |-> text, title |-> title, url |-> url,
     source |-> source, note |-> note]
\* `[Web searches performed: ${n}]`
SearchesPart(n) == Part("searches", n, <<>>, "", <<>>, <<>>, "")
\* `[Source URLs found: ${n}]`
SourcesPart(n) == Part("sources", n, <<>>, "", <<>>, <<>>, "")
TextPart(text) == Part("text", 0, text, "", <<>>, <<>>, "")
\* '\n--- VERIFIED SOURCE URLS ---'
CitationHeader == Part("citation-header", 0, <<>>, "", <<>>, <<>>, "")
\* `${i+1}. ${c.title}\n   ${c.url}\n   ${c.source} | ${c.publishedDate || 'Date unknown'}`
CitationPart(n, c) ==
    Part("citation", n, <<>>, c.title, c.url, c.source,
         IF c.publishedDate = "" THEN "Date unknown" ELSE c.publishedDate)
\* '\n--- REJECTED (FAILED VERIFICATION) ---'
RejectedHeader == Part("rejected-header", 0, <<>>, "", <<>>, <<>>, "")
\* `"${r.title}" — ${r.verificationNote}\n   URL: ${r.url}`
RejectedPart(r) == Part("rejected", 0, <<>>, r.title, r.url, <<>>, r.verificationNote)

\* Lines 338-348: the transcript built before the text is parsed.
rawPartsOf(content, realCitations) ==
    (IF searchPartsCount(content) > 0 THEN <<SearchesPart(searchPartsCount(content))>> ELSE <<>>)
    \o (IF Len(realCitations) > 0 THEN <<SourcesPart(Len(realCitations))>> ELSE <<>>)
    \o [k \in 1..Len(textPartsOf(content)) |-> TextPart(textPartsOf(content)[k])]
    \o (IF Len(realCitations) > 0
        THEN <<CitationHeader>>
             \o [k \in 1..Len(realCitations) |-> CitationPart(k, realCitations[k])]
        ELSE <<>>)

\* Lines 443-448: the rejection section appended after the loop.
withRejections(rawParts, rejectedItems) ==
    IF Len(rejectedItems) > 0
    THEN rawParts \o <<RejectedHeader>>
         \o [k \in 1..Len(rejectedItems) |-> RejectedPart(rejectedItems[k])]
    ELSE rawParts

(***************************************************************************)
(* Cross-referencing (lines 381-441).  An item keeps the id, title, url,   *)
(* verified and verificationNote members of the handler's item; the other  *)
(* members are copied from the element and take no part in verification.   *)
(***************************************************************************)
\* The verification notes; "-" stands for the dash of the source text.
NoteNoUrl == "REJECTED - No valid URL"
NoteConfirmed == "Confirmed - URL found in web search results"
NoteVerifiedKnown == "Verified - URL responds (domain from search results)"
NoteRejectedDead == "REJECTED - URL does not respond"
NoteVerifiedLive == "Verified - URL responds"
NoteRejectedFabricated == "REJECTED - URL does not exist (likely fabricated)"
NoteDirect == "Direct from web search results"

Range(f) == { f[k] : k \in DOMAIN f }

\* Lines 381-385: the exact URLs and the host+path keys of the citations.
realUrlSet(realCitations) ==
    UNION { (IF Parses(c.url) THEN {hostPath(c.url)} ELSE {}) \cup {c.url} :
              c \in Range(realCitations) }

\* Line 386.
realDomainSet(realCitations) == { c.source : c \in Range(realCitations) }

\* `v || d` on strings (lines 400, 401): d when v is missing or empty, v
\* otherwise, whatever v is.
orDefault(v, d) == IF v = "" THEN d ELSE v

\* The vocabularies the prompt asks the upstream model for (line 307).
Categories ==
    {"karst_sinkholes", "geothermal", "water_wells", "foundation", "construction",
     "environment", "infrastructure", "traffic", "waste", "education", "safety",
     "government", "housing", "water_sewer", "other"}
Severities == {"critical", "high", "medium", "low"}

\* Lines 393-405; i is the 0-based loop index, t the value of Date.now().
newItem(it, i, t) ==
    [id |-> [p |-> "l", t |-> t, i |-> i],
     title |-> it.title,
     url |-> it.url,
     category |-> orDefault(it.category, "other"),
     severity |-> orDefault(it.severity, "medium"),
     verified |-> FALSE,
     verificationNote |-> ""]

\* Number.prototype.toString: the decimal digits of a natural number.
DigitChars == <<"0", "1", "2", "3", "4", "5", "6", "7", "8", "9">>
RECURSIVE Digits(_)
Digits(n) ==
    IF n < 10 THEN <<DigitChars[n + 1]>>
    ELSE Digits(n \div 10) \o <<DigitChars[(n % 10) + 1]>>

\* Variant of idString without the index: the id is prefix and clock only.
idStringClockOnly(id) == <<id.p>> \o Digits(id.t)

\* The template literals of lines 362 and 394, `l${Date.now()}_${i}` and
\* `v${Date.now()}_${i}`: the string an id record stands for.
idString(id) == <<id.p>> \o Digits(id.t) \o <<"_">> \o Digits(id.i)

\* Processing the element raises TypeError: reading it.title of null (line
\* 395), or calling startsWith on a url that is no string (line 407).
raises(it) == it.kind = "null" \/ it.urlKind = "number"

\* Variant of noValidUrl that only rejects the empty url (the prefix test lost).
noValidUrlEmptyOnly(item) == item.url = <<>>

\* Line 407.
noValidUrl(item) == item.url = <<>> \/ ~startsWithHttp(item.url)

\* Variant of staticMatch that only knows the exact citation URLs.
staticMatchExact(item, realCitations) ==
    \E c \in Range(realCitations) : item.url = c.url

\* Line 416.
staticMatch(item, realCitations) ==
    \/ urlKey(item.url) \in realUrlSet(realCitations)
    \/ item.url \in realUrlSet(realCitations)

\* Line 420.
domainKnown(item, realCitations) ==
    extractDomain(item.url) \in realDomainSet(realCitations)

\* Variant of push that puts the item at the front of the list.
unshift(list, item) == <<item>> \o list

\* Array.prototype.push (lines 409, 419, 425, 428, 435, 438).
push(list, item) == Append(list, item)

\* Variant of rejectNoUrl that leaves the note as it was created.
rejectNoUrlNoNote(item) == item

\* Line 408.
rejectNoUrl(item) == [item EXCEPT !.verificationNote = NoteNoUrl]
confirm(item) == [item EXCEPT !.verified = TRUE, !.verificationNote = NoteConfirmed]

\* Variant of probed with one rejection label for both branches.
probedOneLabel(item, realCitations, exists) ==
    IF exists
    THEN [item EXCEPT !.verified = TRUE, !.verificationNote = NoteVerifiedLive]
    ELSE [item EXCEPT !.verificationNote = NoteRejectedDead]

\* Lines 421-440: the item after its probe returned `exists`.
probed(item, realCitations, exists) ==
    IF domainKnown(item, realCitations)
    THEN IF exists
         THEN [item EXCEPT !.verified = TRUE, !.verificationNote = NoteVerifiedKnown]
         ELSE [item EXCEPT !.verificationNote = NoteRejectedDead]
    ELSE IF exists
         THEN [item EXCEPT !.verified = TRUE, !.verificationNote = NoteVerifiedLive]
         ELSE [item EXCEPT !.verificationNote = NoteRejectedFabricated]

\* Variant of probeAccepts that accepts a responding URL only on a cited domain.
probeAcceptsKnownOnly(item, realCitations, exists) ==
    exists /\ domainKnown(item, realCitations)

\* Lines 422 and 432, `if (exists)`: in both probe branches the claim goes to
\* the accepted list exactly when verifyUrl returned true.
probeAccepts(item, realCitations, exists) == exists

\* A verifyUrl call in flight: the item it is for and the stage whose fetch is
\* outstanding.
HeadCall(item) == [item |-> item, stage |-> "HEAD"]

RECURSIVE runLoop(_, _, _, _, _, _, _, _)

\* Variant of awaitVerifyUrl without the await: the probe is started and the
\* loop goes on to the next element at once.
verifyUrlNoAwait(parsedItems, realCitations, i, ver, rej, t, clock, fl) ==
    runLoop(parsedItems, realCitations, i + 1, ver, rej, t, clock,
            fl \cup {HeadCall(newItem(parsedItems[i + 1], i, t))})

\* `await verifyUrl(item.url)` (lines 421, 431): verifyUrl issues its HEAD
\* request and the loop is suspended until the call resolves.
awaitVerifyUrl(parsedItems, realCitations, i, ver, rej, t, clock, fl) ==
    {[st |-> "await", i |-> i, ver |-> ver, rej |-> rej, t |-> t,
      fl |-> fl \cup {HeadCall(newItem(parsedItems[i + 1], i, t))}]}

\* The for loop of lines 391-441 from index i on, run to its next suspension
\* point: st is "await" (a probe is outstanding for element i), "end" (the
\* loop is over) or "throw" (element i raised).  Every element reads
\* Date.now() once, first thing (line 394), and the clock may move between
\* two reads, never backwards: t is the value of the clock before element i,
\* clock the values it takes during the stretch.  The value is the set of the
\* outcomes, one for each course of the clock; the field t of an outcome is
\* the last value read.
runLoop(parsedItems, realCitations, i, ver, rej, t, clock, fl) ==
    IF i >= Len(parsedItems)
    THEN {[st |-> "end", i |-> i, ver |-> ver, rej |-> rej, t |-> t, fl |-> fl]}
    ELSE UNION {
        IF raises(parsedItems[i + 1])
        THEN {[st |-> "throw", i |-> i, ver |-> ver, rej |-> rej, t |-> t2, fl |-> fl]}
        ELSE LET item == newItem(parsedItems[i + 1], i, t2)
             IN IF noValidUrl(item)
                THEN runLoop(parsedItems, realCitations, i + 1, ver,
                             push(rej, rejectNoUrl(item)), t2, clock, fl)
                ELSE IF staticMatch(item, realCitations)
                THEN runLoop(parsedItems, realCitations, i + 1,
                             push(ver, confirm(item)), rej, t2, clock, fl)
                ELSE awaitVerifyUrl(parsedItems, realCitations, i, ver, rej, t2, clock, fl)
        : t2 \in { x \in clock : x >= t } }

(***************************************************************************)
(* verifyUrl (lines 191-217): the classification of each stage's outcome.  *)
(***************************************************************************)
\* Response.ok
ok(status) == status >= 200 /\ status <= 299
\* Variant of headAlive with the rule of stage 2 (no 405).
headAliveAsGet(status) == ok(status) \/ status = 206 \/ status = 403

\* Line 202.
headAlive(status) == ok(status) \/ status = 403 \/ status = 405
\* Line 214.
getAlive(status) == ok(status) \/ status = 206 \/ status = 403
\* Variant of getCatch that reports a failed stage 2 as alive.
getCatchAlive == TRUE
\* Line 215: catch { return false; }
getCatch == FALSE

\* Final statuses a probed host may answer with (redirects are followed).
Statuses == {200, 206, 403, 404, 405}
\* Why a fetch rejects: the abort timer fired, the transport failed, or the
\* URL is one fetch cannot request.
FetchErrors(url) == IF Fetchable(url) THEN {"abort", "network"} ELSE {"type-error"}

(***************************************************************************)
(* Responses.                                                              *)
(***************************************************************************)
Stats(totalFound, verified, rejected) ==
    [totalFound |-> totalFound, verified |-> verified, rejected |-> rejected]

\* res.json({items, rawResponse, verifiedSources, stats}); path names the
\* return statement that sent it.
Success(path, items, rawParts, realCitations, stats) ==
    [status |-> 200, path |-> path, items |-> items, rawResponse |-> rawParts,
     verifiedSources |-> realCitations, stats |-> stats]

\* res.status(code).json({error}).
Failure(code, path) ==
    [status |-> code, path |-> path, items |-> <<>>, rawResponse |-> <<>>,
     verifiedSources |-> <<>>, stats |-> Stats(0, 0, 0)]

NoResponse == Failure(0, "none")

\* Variant of fallbackItems without the filter of line 361: one item per
\* citation, usable or not.
RECURSIVE fallbackItemsAll(_, _, _, _)
fallbackItemsAll(realCitations, i, t, clock) ==
    IF realCitations = <<>> THEN {<<>>}
    ELSE UNION {
        { <<[id |-> [p |-> "v", t |-> t2, i |-> i],
             title |-> Head(realCitations).title,
             url |-> Head(realCitations).url,
             category |-> "other",
             severity |-> "medium",
             verified |-> TRUE,
             verificationNote |-> NoteDirect]>> \o rest :
            rest \in fallbackItemsAll(Tail(realCitations), i + 1, t2, clock) }
        : t2 \in { x \in clock : x >= t } }

\* Lines 361-373: the items synthesized from the citations when the text
\* holds no array.  The callback of map reads Date.now() once for each
\* citation the filter kept (line 362), and the clock may move between two
\* reads, never backwards: t is the value of the clock before, clock the
\* values it takes meanwhile.  The value is the set of the item lists, one
\* for each course of the clock.
RECURSIVE fallbackItems(_, _, _, _)
fallbackItems(realCitations, i, t, clock) ==
    IF realCitations = <<>> THEN {<<>>}
    ELSE IF Head(realCitations).url # <<>> /\ Head(realCitations).title # ""
    THEN UNION {
        { <<[id |-> [p |-> "v", t |-> t2, i |-> i],
             title |-> Head(realCitations).title,
             url |-> Head(realCitations).url,
             category |-> "other",
             severity |-> "medium",
             verified |-> TRUE,
             verificationNote |-> NoteDirect]>> \o rest :
            rest \in fallbackItems(Tail(realCitations), i + 1, t2, clock) }
        : t2 \in { x \in clock : x >= t } }
    ELSE fallbackItems(Tail(realCitations), i, t, clock)

\* Variant of finalResponse whose stats forget the rejected claims.
finalResponseNoRejected(l) ==
    [status |-> 200, path |-> "cross-reference", items |-> l.verifiedItems,
     rawResponse |-> l.rawParts,
     verifiedSources |-> l.realCitations,
     stats |-> [totalFound |-> Len(l.parsedItems), verified |-> Len(l.verifiedItems),
                rejected |-> 0]]

\* Lines 450-455, with the locals as the end of the loop left them: rawParts
\* holds the rejection section already.
finalResponse(l) ==
    Success("cross-reference", l.verifiedItems, l.rawParts, l.realCitations,
            Stats(Len(l.parsedItems), Len(l.verifiedItems), Len(l.rejectedItems)))

\* Variant of parseFailure without the inner try: the exception reaches the
\* outer catch.
parseFailureRethrown(l) == Failure(500, "exception")

\* Lines 457-459: catch (parseErr).
parseFailure(l) ==
    Success("parse-failure", <<>>, l.rawParts, l.realCitations, Stats(0, 0, 0))

(***************************************************************************)
(* The rate limiter (lines 26-37).                                         *)
(***************************************************************************)
RateWindowMs == 60000
RateMax == 5
NoRecord == [windowStart |-> -1, count |-> 0]

\* Variant of checkRateLimit that counts the calls it rejects.
checkRateLimitCountsAll(limits, ip, t) ==
    IF limits[ip] = NoRecord \/ t - limits[ip].windowStart > RateWindowMs
    THEN [admitted |-> TRUE,
          limits |-> [limits EXCEPT ![ip] = [windowStart |-> t, count |-> 1]]]
    ELSE [admitted |-> limits[ip].count < RateMax,
          limits |-> [limits EXCEPT ![ip].count = limits[ip].count + 1]]

\* checkRateLimit(ip) at time t: whether the request is admitted, and the
\* map afterwards.
checkRateLimit(limits, ip, t) ==
    IF limits[ip] = NoRecord \/ t - limits[ip].windowStart > RateWindowMs
    THEN [admitted |-> TRUE,
          limits |-> [limits EXCEPT ![ip] = [windowStart |-> t, count |-> 1]]]
    ELSE IF limits[ip].count >= RateMax
    THEN [admitted |-> FALSE, limits |-> limits]
    ELSE [admitted |-> TRUE,
          limits |-> [limits EXCEPT ![ip].count = limits[ip].count + 1]]

\* The times of log that lie less than one window before t.
lastMinute(log, t) ==
    LET Recent(x) == t - x < RateWindowMs
    IN SelectSeq(log, Recent)

(***************************************************************************)
(* The TDEC data store and its endpoints (lines 48-57, 147-188).           *)
(***************************************************************************)
\* The keys of tdecStore (lines 49-53), which are also validTypes (line 165).
Datasets == {"complaints", "permits", "inspections", "wells", "drillers"}
\* process.env.UPLOAD_KEY || 'civicsentinel2026'
UPLOAD_KEY == "civicsentinel2026"
\* lastUpdated: null
Null == -1
\* A dataset before its first upload (lines 49-53).
EmptyDataset == [records |-> <<>>, lastUpdated |-> Null, statewide |-> 0]

\* `statewide || records.length` (lines 177, 186); statewide is 0 when the
\* body has no such member (or a falsy one).
orLength(statewide, records) == IF statewide = 0 THEN Len(records) ELSE statewide

\* Variant of uploaded that adds the records to those already stored.
uploadedAppended(store, type, records, statewide, t) ==
    [store EXCEPT ![type] = [records |-> store[type].records \o records,
                             lastUpdated |-> t,
                             statewide |-> orLength(statewide, records)]]

\* Lines 174-178: the store after an accepted upload at time t; lastUpdated
\* is the time as new Date().toISOString() writes it.
uploaded(store, type, records, statewide, t) ==
    [store EXCEPT ![type] = [records |-> records,
                             lastUpdated |-> t,
                             statewide |-> orLength(statewide, records)]]

\* Lines 148-153: the loop of the stats endpoint over the datasets `left`,
\* adding store.records.length to total.
RECURSIVE totalOver(_, _, _)
totalOver(store, left, total) ==
    IF left = {} THEN total
    ELSE LET ty == CHOOSE x \in left : TRUE
         IN totalOver(store, left \ {ty}, total + Len(store[ty].records))

\* The records member of a request body: an array of one or of two records,
\* or something that is no array.
UploadRecords ==
    { [isArray |-> TRUE, items |-> <<"rec1">>], [isArray |-> TRUE, items |-> <<"rec1", "rec2">>],
      [isArray |-> FALSE, items |-> <<>>] }
\* The request bodies of the upload endpoint: the key (right or wrong), the
\* type (a dataset or not), the records and statewide (missing or given).
UploadBodies ==
    [key : {UPLOAD_KEY, "wrong"}, type : Datasets \cup {"other"},
     records : UploadRecords, statewide : {0, 2}]
NoUploadBody ==
    [key |-> "", type |-> "", records |-> [isArray |-> FALSE, items |-> <<>>], statewide |-> 0]

\* A request to a TDEC endpoint with its response: the status, and the
\* numbers of the body (stored and statewide of an upload, totalLocalRecords
\* of the stats).
TdecRes(endpoint, body, status, stored, statewide, total) ==
    [endpoint |-> endpoint, body |-> body, status |-> status, stored |-> stored,
     statewide |-> statewide, totalLocalRecords |-> total]
NoTdecRes == TdecRes("none", NoUploadBody, 0, 0, 0, 0)

(***************************************************************************)
(* The state.                                                              *)
(***************************************************************************)
\* Invocations of the search handler that may be in flight together.
Reqs == {"r1", "r2"}
IPs == {"ip1", "ip2"}
\* req.body: city and topic, "" when missing.
Bodies == { [city |-> c, topic |-> t] : c \in {"", "Murfreesboro"}, t \in {"", "sinkhole"} }
\* process.env.ANTHROPIC_API_KEY
apiKey == "sk-ant"

VARIABLES
    pc,          \* pc[r]: where invocation r stands: "idle", "upstream" (awaiting
                 \* the upstream call), "probe" (awaiting verifyUrl), "done"
    now,         \* Date.now()
    rateLimits,  \* the rateLimits map, NoRecord for an absent key
    data,        \* data[r]: the upstream payload invocation r received
    loc,         \* loc[f]: the handler's local variables in frame f
    inflight,    \* inflight[r]: the verifyUrl calls of r whose fetch is outstanding
    calls,       \* calls[r]: the verifyUrl calls of r that resolved, in order
    lastFetch,   \* lastFetch[r]: the fetch of r that completed last
    resp,        \* resp[r]: the response sent, NoResponse before
    admits,      \* admits[ip]: the times at which checkRateLimit(ip) returned true,
                 \* as far back as one window before the last of them
    uncleaned,   \* the rateLimits map as the same calls of checkRateLimit leave it
                 \* when the cleanup timer never fires
    tdecStore,   \* the tdecStore object: for each dataset its records, lastUpdated
                 \* and statewide
    tdecRes      \* the last request to a TDEC endpoint and the response it got

vars == <<pc, now, rateLimits, data, loc, inflight, calls, lastFetch, resp, admits,
          uncleaned, tdecStore, tdecRes>>

\* `data` before response.json() resolved.
NoData == [error |-> FALSE, content |-> <<>>, undefined |-> TRUE]
NoLocals ==
    [realCitations |-> <<>>, rawParts |-> <<>>, parsedItems |-> <<>>, i |-> 0,
     verifiedItems |-> <<>>, rejectedItems |-> <<>>]
NoFetch == [i |-> -1, method |-> "none", outcome |-> -1]

Init ==
    /\ pc = [r \in Reqs |-> "idle"]
    /\ now = 0
    /\ rateLimits = [ip \in IPs |-> NoRecord]
    /\ data = [r \in Reqs |-> NoData]
    /\ loc = [r \in Reqs |-> NoLocals]
    /\ inflight = [r \in Reqs |-> {}]
    /\ calls = [r \in Reqs |-> <<>>]
    /\ lastFetch = [r \in Reqs |-> NoFetch]
    /\ resp = [r \in Reqs |-> NoResponse]
    /\ admits = [ip \in IPs |-> <<>>]
    /\ uncleaned = [ip \in IPs |-> NoRecord]
    /\ tdecStore = [ty \in Datasets |-> EmptyDataset]
    /\ tdecRes = NoTdecRes

\* Variant of Frame in which the locals are module-level variables, shared by
\* all invocations.
SharedFrame(r) == "r1"

\* The local variables of an invocation live in its own activation frame
\* (const/let inside the handler, lines 333-389).
Frame(r) == r

(***************************************************************************)
(* POST /api/search, lines 263-326: from the request to the upstream call. *)
(***************************************************************************)
Search(r, ip, body) ==
    /\ pc[r] = "idle"
    /\ LET rl == checkRateLimit(rateLimits, ip, now)
       IN /\ rateLimits' = rl.limits
          /\ admits' = IF rl.admitted
                       THEN [admits EXCEPT ![ip] = Append(lastMinute(@, now), now)]
                       ELSE admits
          /\ uncleaned' = checkRateLimit(uncleaned, ip, now).limits
          /\ IF ~rl.admitted
             THEN /\ resp' = [resp EXCEPT ![r] = Failure(429, "rate-limit")]
                  /\ pc' = [pc EXCEPT ![r] = "done"]
             ELSE IF apiKey = ""
             THEN /\ resp' = [resp EXCEPT ![r] = Failure(500, "no-api-key")]
                  /\ pc' = [pc EXCEPT ![r] = "done"]
             ELSE IF body.city = "" \/ body.topic = ""
             THEN /\ resp' = [resp EXCEPT ![r] = Failure(400, "bad-request")]
                  /\ pc' = [pc EXCEPT ![r] = "done"]
             ELSE /\ resp' = resp
                  /\ pc' = [pc EXCEPT ![r] = "upstream"]
    /\ UNCHANGED <<now, data, loc, inflight, calls, lastFetch, tdecStore, tdecRes>>

\* The state of invocation r after its loop ran to `res`, an outcome of
\* runLoop, with locals l: suspended on a probe, answered, or answered from
\* catch (parseErr).  When the loop is over, lines 443-448 push the rejection
\* section onto rawParts before the response is sent.  The clock stands at
\* the value the loop read last.
LoopTo(r, l, res) ==
    LET l1 == [l EXCEPT !.i = res.i, !.verifiedItems = res.ver, !.rejectedItems = res.rej]
        l2 == IF res.st = "end"
              THEN [l1 EXCEPT !.rawParts = withRejections(@, res.rej)]
              ELSE l1
    IN /\ now' = res.t
       /\ loc' = [loc EXCEPT ![Frame(r)] = l2]
       /\ inflight' = [inflight EXCEPT ![r] = res.fl]
       /\ IF res.st = "await"
          THEN /\ pc' = [pc EXCEPT ![r] = "probe"]
               /\ resp' = resp
          ELSE /\ pc' = [pc EXCEPT ![r] = "done"]
               /\ resp' = [resp EXCEPT ![r] =
                             IF res.st = "end" THEN finalResponse(l2) ELSE parseFailure(l2)]

\* Lines 312-326 and the outer catch (461-464): the upstream fetch or
\* response.json() rejects.
UpstreamThrows(r) ==
    /\ pc[r] = "upstream"
    /\ pc' = [pc EXCEPT ![r] = "done"]
    /\ resp' = [resp EXCEPT ![r] = Failure(500, "exception")]
    /\ UNCHANGED <<now, rateLimits, admits, uncleaned, tdecStore, tdecRes, data,
                   loc, inflight, calls, lastFetch>>

\* Lines 333-380 for payload content, the clock standing at t and taking the
\* values of `clock`: either the response of an early return (respond =
\* TRUE), or the locals with which the loop starts.  The value is the set of
\* the outcomes, one for each course of the clock (only the fallback reads
\* it); the field t of an outcome is where the clock stands afterwards.
beforeLoop(content, t, clock) ==
    LET realCitations == extractCitations(content)
        rawParts == rawPartsOf(content, realCitations)
        cleaned == cleanedOf(joinNewline(textPartsOf(content)))
        match == arrayMatch(cleaned)
        l == [NoLocals EXCEPT !.realCitations = realCitations, !.rawParts = rawParts]
    IN IF includesSentinel(cleaned)
       THEN {[respond |-> TRUE, l |-> l, t |-> t,
              resp |-> Success("no-results", <<>>, rawParts, realCitations, Stats(0, 0, 0))]}
       ELSE IF match = <<>>
       THEN IF Len(realCitations) > 0
            THEN { [respond |-> TRUE, l |-> l,
                    t |-> IF items = <<>> THEN t ELSE items[Len(items)].id.t,
                    resp |-> Success("fallback", items, rawParts, realCitations,
                                     Stats(Len(items), Len(items), 0))] :
                     items \in fallbackItems(realCitations, 0, t, clock) }
            ELSE {[respond |-> TRUE, l |-> l, t |-> t,
                   resp |-> Success("no-array", <<>>, rawParts, realCitations,
                                    Stats(0, 0, 0))]}
       ELSE IF ~JSONparse(match).ok
       THEN {[respond |-> TRUE, l |-> l, t |-> t, resp |-> parseFailure(l)]}
       ELSE {[respond |-> FALSE, l |-> [l EXCEPT !.parsedItems = JSONparse(match).vals],
              t |-> t, resp |-> NoResponse]}

\* Line 329: if (data.error).
dataError(d) == d.error

\* Lines 328-441: the upstream call returns payload d; the handler runs to its
\* first suspension point or to its response, the clock taking the values of
\* `clock` meanwhile.  An exception of extractCitations (line 336) is outside
\* the inner try and goes to the outer catch (461-464).
UpstreamReturns(r, d, clock) ==
    /\ pc[r] = "upstream"
    /\ data' = [data EXCEPT ![r] = d]
    /\ UNCHANGED <<rateLimits, admits, uncleaned, tdecStore, tdecRes, calls, lastFetch>>
    /\ IF dataError(d)
       THEN /\ pc' = [pc EXCEPT ![r] = "done"]
            /\ resp' = [resp EXCEPT ![r] = Failure(502, "upstream-error")]
            /\ UNCHANGED <<now, loc, inflight>>
       ELSE IF extractCitationsThrows(d.content)
       THEN /\ pc' = [pc EXCEPT ![r] = "done"]
            /\ resp' = [resp EXCEPT ![r] = Failure(500, "exception")]
            /\ UNCHANGED <<now, loc, inflight>>
       ELSE \E b \in beforeLoop(d.content, now, clock) :
               IF b.respond
               THEN /\ pc' = [pc EXCEPT ![r] = "done"]
                    /\ resp' = [resp EXCEPT ![r] = b.resp]
                    /\ loc' = [loc EXCEPT ![Frame(r)] = b.l]
                    /\ now' = b.t
                    /\ UNCHANGED inflight
               ELSE \E res \in runLoop(b.l.parsedItems, b.l.realCitations, 0, <<>>, <<>>,
                                       now, clock, inflight[r]) :
                       LoopTo(r, b.l, res)

(***************************************************************************)
(* verifyUrl in flight (lines 191-217) and the rest of the loop.           *)
(***************************************************************************)
\* verifyUrl resolved with `exists` for call c: lines 422-440 classify the
\* item, then the loop goes on from the next element, the clock taking the
\* values of `clock` meanwhile.
Resolve(r, c, exists, clock) ==
    LET l == loc[Frame(r)]
        item == probed(c.item, l.realCitations, exists)
        accept == probeAccepts(c.item, l.realCitations, exists)
        ver == IF accept THEN push(l.verifiedItems, item) ELSE l.verifiedItems
        rej == IF accept THEN l.rejectedItems ELSE push(l.rejectedItems, item)
        fl == inflight[r] \ {c}
    IN /\ calls' = [calls EXCEPT ![r] =
                      Append(@, [i |-> c.item.id.i, url |-> c.item.url, alive |-> exists])]
       /\ IF pc[r] = "probe"
          THEN \E res \in runLoop(l.parsedItems, l.realCitations, c.item.id.i + 1,
                                  ver, rej, now, clock, fl) :
                  LoopTo(r, l, res)
          ELSE /\ loc' = [loc EXCEPT ![Frame(r)] =
                            [l EXCEPT !.verifiedItems = ver, !.rejectedItems = rej]]
               /\ inflight' = [inflight EXCEPT ![r] = fl]
               /\ UNCHANGED <<pc, resp, now>>

\* Stage 1 answers with a status (line 202).
HeadReturns(r, c, status, clock) ==
    /\ c \in inflight[r]
    /\ c.stage = "HEAD"
    /\ Fetchable(c.item.url)
    /\ lastFetch' = [lastFetch EXCEPT ![r] =
                       [i |-> c.item.id.i, method |-> "HEAD", outcome |-> status]]
    /\ Resolve(r, c, headAlive(status), clock)
    /\ UNCHANGED <<rateLimits, admits, uncleaned, tdecStore, tdecRes, data>>

\* Stage 1 rejects (line 203): stage 2 issues the ranged GET.
HeadThrows(r, c, err) ==
    /\ c \in inflight[r]
    /\ c.stage = "HEAD"
    /\ err \in FetchErrors(c.item.url)
    /\ lastFetch' = [lastFetch EXCEPT ![r] =
                       [i |-> c.item.id.i, method |-> "HEAD", outcome |-> 0]]
    /\ inflight' = [inflight EXCEPT ![r] = (@ \ {c}) \cup {[c EXCEPT !.stage = "GET"]}]
    /\ UNCHANGED <<pc, now, rateLimits, admits, uncleaned, tdecStore, tdecRes,
                   data, loc, calls, resp>>

\* Stage 2 answers with a status (line 214).
GetReturns(r, c, status, clock) ==
    /\ c \in inflight[r]
    /\ c.stage = "GET"
    /\ Fetchable(c.item.url)
    /\ lastFetch' = [lastFetch EXCEPT ![r] =
                       [i |-> c.item.id.i, method |-> "GET", outcome |-> status]]
    /\ Resolve(r, c, getAlive(status), clock)
    /\ UNCHANGED <<rateLimits, admits, uncleaned, tdecStore, tdecRes, data>>

\* Variant of GetThrows that starts the call over at stage 1 when stage 2
\* fails.
GetThrowsRetry(r, c, err, clock) ==
    /\ c \in inflight[r]
    /\ c.stage = "GET"
    /\ err \in FetchErrors(c.item.url)
    /\ lastFetch' = [lastFetch EXCEPT ![r] =
                       [i |-> c.item.id.i, method |-> "GET", outcome |-> 0]]
    /\ inflight' = [inflight EXCEPT ![r] = (@ \ {c}) \cup {[c EXCEPT !.stage = "HEAD"]}]
    /\ UNCHANGED <<pc, now, rateLimits, admits, uncleaned, tdecStore, tdecRes,
                   data, loc, calls, resp>>

\* Stage 2 rejects (line 215).
GetThrows(r, c, err, clock) ==
    /\ c \in inflight[r]
    /\ c.stage = "GET"
    /\ err \in FetchErrors(c.item.url)
    /\ lastFetch' = [lastFetch EXCEPT ![r] =
                       [i |-> c.item.id.i, method |-> "GET", outcome |-> 0]]
    /\ Resolve(r, c, getCatch, clock)
    /\ UNCHANGED <<rateLimits, admits, uncleaned, tdecStore, tdecRes, data>>

(***************************************************************************)
(* Specifications.                                                         *)
(***************************************************************************)
ErrorKinds == {"abort", "network", "type-error"}

\* One invocation of the handler, over every payload, while the clock stands
\* still: every read of Date.now() returns `now`.
Next ==
    \/ \E ip \in {"ip1"}, body \in Bodies : Search("r1", ip, body)
    \/ UpstreamThrows("r1")
    \/ pc["r1"] = "upstream" /\ \E d \in Payloads : UpstreamReturns("r1", d, {now})
    \/ \E c \in inflight["r1"], status \in Statuses : HeadReturns("r1", c, status, {now})
    \/ \E c \in inflight["r1"], err \in ErrorKinds : HeadThrows("r1", c, err)
    \/ \E c \in inflight["r1"], status \in Statuses : GetReturns("r1", c, status, {now})
    \/ \E c \in inflight["r1"], err \in ErrorKinds : GetThrows("r1", c, err, {now})

Spec == Init /\ [][Next]_vars

\* The outstanding fetch of a verifyUrl call of r completes: it is answered, or
\* it rejects, at the latest when the abort timer of its stage (lines 194,
\* 206) fires after 5000 ms.  The clock stands still meanwhile.
StageCompletes(r) ==
    \E c \in inflight[r] :
        \/ \E status \in Statuses : HeadReturns(r, c, status, {now})
        \/ \E err \in ErrorKinds : HeadThrows(r, c, err)
        \/ \E status \in Statuses : GetReturns(r, c, status, {now})
        \/ \E err \in ErrorKinds : GetThrows(r, c, err, {now})

\* Candidate arrays of the runs that are checked for termination, answered
\* with one citation.
LiveElems == { Obj("An", uANorm), Obj("B", uWwwB), Obj("X", uOther), Obj("G", uGarbage),
               NullElem }
LivePayloads ==
    { [error |-> FALSE,
       content |-> <<SearchBlock(<<SearchResult("A", uA)>>), TextBlock(Fenced(cs))>>] :
        cs \in SeqsUpTo(LiveElems, MaxCand) }

NextLive ==
    \/ \E body \in Bodies : Search("r1", "ip1", body)
    \/ UpstreamThrows("r1")
    \/ pc["r1"] = "upstream" /\ \E d \in LivePayloads : UpstreamReturns("r1", d, {now})
    \/ StageCompletes("r1")

\* One invocation of the handler, every outstanding stage bounded by its
\* abort timer.
SpecLive == Init /\ [][NextLive]_vars /\ WF_vars(StageCompletes("r1"))

\* Payloads for invocations that run together: two probes on a cited and an
\* unknown domain; a probe of an unparsable URL and a static match; the
\* citation fallback; two probes without citations; a rejection followed by an
\* element that raises.
ConcPayloads ==
    { [error |-> FALSE,
       content |-> <<SearchBlock(<<SearchResult("A", uA)>>),
                     TextBlock(Fenced(<<Obj("B", uWwwB), Obj("X", uOther)>>))>>],
      [error |-> FALSE,
       content |-> <<SearchBlock(<<SearchResult("R", uRel)>>),
                     TextBlock(Fenced(<<Obj("G", uGarbage), Obj("An", uANorm)>>))>>],
      [error |-> FALSE,
       content |-> <<SearchBlock(<<SearchResult("A", uA)>>), TextBlock(<<Prose>>)>>],
      [error |-> FALSE,
       content |-> <<SearchBlock(<<>>),
                     TextBlock(Fenced(<<Obj("X", uOther), Obj("G", uGarbage)>>))>>],
      [error |-> FALSE,
       content |-> <<SearchBlock(<<>>),
                     TextBlock(Fenced(<<Obj("", <<>>), NullElem>>))>>] }

\* All invocations, interleaved at their suspension points, while the clock
\* stands still.
NextConc ==
    \/ \E r \in Reqs, ip \in IPs, body \in Bodies : Search(r, ip, body)
    \/ \E r \in Reqs : UpstreamThrows(r)
    \/ \E r \in Reqs : pc[r] = "upstream" /\ \E d \in ConcPayloads : UpstreamReturns(r, d, {now})
    \/ \E r \in Reqs : \E c \in inflight[r], status \in Statuses : HeadReturns(r, c, status, {now})
    \/ \E r \in Reqs : \E c \in inflight[r], err \in ErrorKinds : HeadThrows(r, c, err)
    \/ \E r \in Reqs : \E c \in inflight[r], status \in Statuses : GetReturns(r, c, status, {now})
    \/ \E r \in Reqs : \E c \in inflight[r], err \in ErrorKinds : GetThrows(r, c, err, {now})

SpecConc == Init /\ [][NextConc]_vars

(***************************************************************************)
(* The clock, the cleanup timer and the reuse of invocations.              *)
(***************************************************************************)
\* The values Date.now() takes: the start of each rate-limit window after the
\* first request and the millisecond after it.
ClockValues == { k * RateWindowMs + d : k \in 0..MaxWindows, d \in {0, 1} }

\* Time passes between two steps of the handlers.  (Within a step of the
\* search handler it passes between two reads of Date.now(), see runLoop and
\* fallbackItems.)
Tick ==
    /\ \E t \in ClockValues : t > now /\ now' = t
    /\ UNCHANGED <<pc, rateLimits, data, loc, inflight, calls, lastFetch, resp,
                   admits, uncleaned, tdecStore, tdecRes>>

\* Lines 38-43: the cleanup timer fires and deletes the records older than
\* CleanupAgeMs.  The phase of the timer against the clock is not known, so
\* the timer may fire at any moment.
CleanupAgeMs == 120000

\* Variant of cleanupDeletes that deletes a record once it is half a window old.
cleanupDeletesEarly(record, t) == 2 * (t - record.windowStart) > RateWindowMs

\* Line 41: the test under which the timer deletes a record.
cleanupDeletes(record, t) == t - record.windowStart > CleanupAgeMs

Cleanup ==
    /\ rateLimits' = [ip \in IPs |->
                        IF rateLimits[ip] # NoRecord /\ cleanupDeletes(rateLimits[ip], now)
                        THEN NoRecord ELSE rateLimits[ip]]
    /\ UNCHANGED <<pc, now, data, loc, inflight, calls, lastFetch, resp, admits,
                   uncleaned, tdecStore, tdecRes>>

\* The invocation is over once its response is sent: its frame is released
\* and the name r stands for the next request the server receives.
Close(r) ==
    /\ pc[r] = "done"
    /\ inflight[r] = {}
    /\ pc' = [pc EXCEPT ![r] = "idle"]
    /\ data' = [data EXCEPT ![r] = NoData]
    /\ loc' = [loc EXCEPT ![Frame(r)] = NoLocals]
    /\ calls' = [calls EXCEPT ![r] = <<>>]
    /\ lastFetch' = [lastFetch EXCEPT ![r] = NoFetch]
    /\ resp' = [resp EXCEPT ![r] = NoResponse]
    /\ UNCHANGED <<now, rateLimits, admits, uncleaned, tdecStore, tdecRes, inflight>>

\* Payloads for the runs in which the clock moves: those of ConcPayloads, a
\* three-candidate array probed twice, and a fallback over three citations.
ClockPayloads ==
    ConcPayloads
    \cup { [error |-> FALSE,
            content |-> <<SearchBlock(<<SearchResult("A", uA)>>),
                          TextBlock(Fenced(<<Obj("B", uWwwB), Obj("", <<>>),
                                             Obj("X", uOther)>>))>>],
           [error |-> FALSE,
            content |-> <<SearchBlock(<<SearchResult("A", uA), SearchResult("", uWwwB),
                                        SearchResult("R", uRel)>>),
                          TextBlock(<<Prose>>)>>] }

\* One invocation of the handler while the clock moves, between its steps
\* and within them.
NextClock ==
    \/ Tick
    \/ \E body \in Bodies : Search("r1", "ip1", body)
    \/ UpstreamThrows("r1")
    \/ pc["r1"] = "upstream" /\ \E d \in ClockPayloads : UpstreamReturns("r1", d, ClockValues)
    \/ \E c \in inflight["r1"], status \in Statuses : HeadReturns("r1", c, status, ClockValues)
    \/ \E c \in inflight["r1"], err \in ErrorKinds : HeadThrows("r1", c, err)
    \/ \E c \in inflight["r1"], status \in Statuses : GetReturns("r1", c, status, ClockValues)
    \/ \E c \in inflight["r1"], err \in ErrorKinds : GetThrows("r1", c, err, ClockValues)

SpecClock == Init /\ [][NextClock]_vars

\* Payload of the runs that exercise the rate limiter: the upstream reports
\* an error.
RatePayloads == { [error |-> TRUE, content |-> <<>>] }
\* Their request bodies: complete ones.
RateBodies == { b \in Bodies : b.city # "" /\ b.topic # "" }

\* Requests of all clients arriving over time, each invocation running to its
\* response, with the cleanup timer.
NextRate ==
    \/ Tick
    \/ Cleanup
    \/ \E r \in Reqs, ip \in IPs, body \in RateBodies : Search(r, ip, body)
    \/ \E r \in Reqs : pc[r] = "upstream" /\ \E d \in RatePayloads : UpstreamReturns(r, d, ClockValues)
    \/ \E r \in Reqs : Close(r)

SpecRate == Init /\ [][NextRate]_vars

(***************************************************************************)
(* Two invocations over answers that hold the same candidate array and     *)
(* differ in their citations.                                              *)
(***************************************************************************)
uOtherRoot == <<"https://", "other.org", "/">>

\* The citations of the paired answers: none, one on example.com, one on
\* other.org.  None of them is the URL or the host+path key of a candidate
\* of TwinArrays.
TwinResults ==
    { <<>>, <<SearchResult("A", uA)>>, <<SearchResult("O", uOtherRoot)>> }
\* Their candidate arrays: two probed candidates; a probed candidate followed
\* by an element that raises.
TwinArrays == { <<Obj("B", uWwwB), Obj("X", uOther)>>, <<Obj("X", uOther), NullElem>> }
TwinPayloads ==
    { [error |-> FALSE, content |-> <<SearchBlock(rs), TextBlock(Fenced(cs))>>] :
        rs \in TwinResults, cs \in TwinArrays }

NextTwin ==
    \/ \E r \in Reqs, body \in RateBodies : Search(r, "ip1", body)
    \/ \E r \in Reqs : pc[r] = "upstream" /\ \E d \in TwinPayloads : UpstreamReturns(r, d, {now})
    \/ \E r \in Reqs : \E c \in inflight[r], status \in Statuses : HeadReturns(r, c, status, {now})
    \/ \E r \in Reqs : \E c \in inflight[r], err \in ErrorKinds : HeadThrows(r, c, err)
    \/ \E r \in Reqs : \E c \in inflight[r], status \in Statuses : GetReturns(r, c, status, {now})
    \/ \E r \in Reqs : \E c \in inflight[r], err \in ErrorKinds : GetThrows(r, c, err, {now})

SpecTwin == Init /\ [][NextTwin]_vars

(***************************************************************************)
(* extractDomain over a catalogue of URLs: answers whose citations carry   *)
(* every URL built from a scheme (or none), up to MaxHost host tokens and  *)
(* an optional path, together with the empty string, a scheme alone and a  *)
(* scheme followed at once by a path.                                      *)
(***************************************************************************)
DomainHosts == UNION { [1..k -> HostTokens] : k \in 1..MaxHost }
DomainUrls ==
    { s \o h \o p : s \in {<<"https://">>, <<"ftp://">>, <<>>},
                    h \in DomainHosts, p \in {<<>>, <<"/a">>} }
    \cup { <<>>, <<"https://">>, uGarbage }
    \cup { <<s, p>> : s \in {"https://", "ftp://"}, p \in PathTokens }
DomainPayloads ==
    { [error |-> FALSE,
       content |-> <<SearchBlock(<<SearchResult("A", u)>>), TextBlock(<<Prose>>)>>] :
        u \in DomainUrls }

NextDomain ==
    \/ \E body \in RateBodies : Search("r1", "ip1", body)
    \/ pc["r1"] = "upstream" /\ \E d \in DomainPayloads : UpstreamReturns("r1", d, {now})

SpecDomain == Init /\ [][NextDomain]_vars

(***************************************************************************)
(* Answers whose candidate carries a category and a severity: every value  *)
(* of the two vocabularies, a missing value, and a value outside.          *)
(***************************************************************************)
CategoryValues == Categories \cup {"", "weather"}
SeverityValues == Severities \cup {"", "urgent"}
\* The candidate's URL is the citation's (accepted without a probe) or one on
\* an uncited domain (probed).
EnumPayloads ==
    { [error |-> FALSE,
       content |-> <<SearchBlock(<<SearchResult("A", uA)>>),
                     TextBlock(Fenced(<<ObjCS("C", u, c, s)>>))>>] :
        u \in {uA, uOther}, c \in CategoryValues, s \in SeverityValues }
    \cup { [error |-> FALSE,
            content |-> <<SearchBlock(<<SearchResult("A", uA)>>), TextBlock(<<Prose>>)>>] }

NextEnum ==
    \/ \E body \in RateBodies : Search("r1", "ip1", body)
    \/ pc["r1"] = "upstream" /\ \E d \in EnumPayloads : UpstreamReturns("r1", d, {now})
    \/ \E c \in inflight["r1"], status \in Statuses : HeadReturns("r1", c, status, {now})
    \/ \E c \in inflight["r1"], err \in ErrorKinds : HeadThrows("r1", c, err)
    \/ \E c \in inflight["r1"], status \in Statuses : GetReturns("r1", c, status, {now})
    \/ \E c \in inflight["r1"], err \in ErrorKinds : GetThrows("r1", c, err, {now})

SpecEnum == Init /\ [][NextEnum]_vars

(***************************************************************************)
(* Answers whose candidates and citations carry URLs that do not parse, or *)
(* that parse although they have no host token.                            *)
(***************************************************************************)
\* A scheme with nothing after it: it begins with http and new URL() throws.
uSchemeOnly == <<"http://">>

\* The citations: one without url, one with a relative url, one that parses,
\* one of the form https:///a (host "a"), none.
UnknownResults ==
    { <<SearchResult("E", <<>>)>>, <<SearchResult("R", uRel)>>,
      <<SearchResult("A", uA)>>, <<SearchResult("L", <<"https://", "/a">>)>>, <<>> }
\* The candidate arrays: up to two of an http:// without host, the letters
\* http followed by text, two URLs that parse, and two of the form https:///a.
UnknownElems ==
    { Obj("H", uSchemeOnly), Obj("G", uGarbage), Obj("B", uWwwB), Obj("X", uOther),
      Obj("L", <<"https://", "/a", "?utm=1">>), Obj("M", <<"http://", "/b">>) }
UnknownPayloads ==
    { [error |-> FALSE, content |-> <<SearchBlock(rs), TextBlock(Fenced(cs))>>] :
        rs \in UnknownResults, cs \in SeqsUpTo(UnknownElems, 2) }

NextUnknown ==
    \/ \E body \in RateBodies : Search("r1", "ip1", body)
    \/ pc["r1"] = "upstream" /\ \E d \in UnknownPayloads : UpstreamReturns("r1", d, {now})
    \/ \E c \in inflight["r1"], status \in Statuses : HeadReturns("r1", c, status, {now})
    \/ \E c \in inflight["r1"], err \in ErrorKinds : HeadThrows("r1", c, err)
    \/ \E c \in inflight["r1"], status \in Statuses : GetReturns("r1", c, status, {now})
    \/ \E c \in inflight["r1"], err \in ErrorKinds : GetThrows("r1", c, err, {now})

SpecUnknown == Init /\ [][NextUnknown]_vars

\* The requests of two clients arriving one after the other over time, with
\* the cleanup timer.
NextLimiter ==
    \/ Tick
    \/ Cleanup
    \/ \E ip \in IPs, body \in RateBodies : Search("r1", ip, body)
    \/ pc["r1"] = "upstream" /\ \E d \in RatePayloads : UpstreamReturns("r1", d, ClockValues)
    \/ Close("r1")

SpecLimiter == Init /\ [][NextLimiter]_vars

(***************************************************************************)
(* POST /api/tdec-upload (lines 158-188) and GET /api/tdec-stats (lines    *)
(* 147-155).  Both handlers are synchronous: each is one step.             *)
(***************************************************************************)
Upload(body) ==
    /\ IF body.key # UPLOAD_KEY
       THEN /\ tdecRes' = TdecRes("upload", body, 403, 0, 0, 0)
            /\ tdecStore' = tdecStore
       ELSE IF body.type \notin Datasets
       THEN /\ tdecRes' = TdecRes("upload", body, 400, 0, 0, 0)
            /\ tdecStore' = tdecStore
       ELSE IF ~body.records.isArray
       THEN /\ tdecRes' = TdecRes("upload", body, 400, 0, 0, 0)
            /\ tdecStore' = tdecStore
       ELSE /\ tdecStore' = uploaded(tdecStore, body.type, body.records.items,
                                     body.statewide, now)
            /\ tdecRes' = TdecRes("upload", body, 200, Len(body.records.items),
                                  orLength(body.statewide, body.records.items), 0)
    /\ UNCHANGED <<pc, now, rateLimits, data, loc, inflight, calls, lastFetch, resp,
                   admits, uncleaned>>

TdecStats ==
    /\ tdecRes' = TdecRes("stats", NoUploadBody, 200, 0, 0,
                          totalOver(tdecStore, Datasets, 0))
    /\ UNCHANGED <<pc, now, rateLimits, data, loc, inflight, calls, lastFetch, resp,
                   admits, uncleaned, tdecStore>>

\* The scraper's uploads and the stats requests, in any order.
NextTdec ==
    \/ \E body \in UploadBodies : Upload(body)
    \/ TdecStats

SpecTdec == Init /\ [][NextTdec]_vars

(***************************************************************************)
(* Vocabulary of the properties.                                           *)
(***************************************************************************)
\* Invocation r answered with a success response.
Answered(r) == pc[r] = "done" /\ resp[r].status = 200
CrossReferenced(r) == Answered(r) /\ resp[r].path = "cross-reference"

\* The citations of the payload r received and its candidate array.
CitationsOf(r) == loc[r].realCitations
CandidatesOf(r) == loc[r].parsedItems

\* url or its host+path key is a citation's raw URL or host+path key.
InLookup(url, cits) ==
    \E c \in Range(cits) :
        \/ url = c.url
        \/ urlKey(url) = c.url
        \/ Parses(c.url) /\ (url = hostPath(c.url) \/ urlKey(url) = hostPath(c.url))

\* The domain of url is the source domain of a citation.
DomainCited(url, cits) == \E c \in Range(cits) : c.source = extractDomain(url)

\* verifyUrl was called for candidate k of r (resolved or still in flight).
Probed(r, k) ==
    \/ \E n \in 1..Len(calls[r]) : calls[r][n].i = k
    \/ \E c \in inflight[r] : c.item.id.i = k

\* Candidate k of r is in list `items` exactly `n` times.
Occurs(items, k) == Cardinality({ n \in 1..Len(items) : items[n].id.i = k })

\* The entries of the rejection section of a transcript.
RejectedParts(raw) == { n \in 1..Len(raw) : raw[n].kind = "rejected" }

\* C1: on the cross-reference path a claim is in `items` only if its URL begins
\* with http and it is in the citation lookup set or verifyUrl returned alive
\* for it; no claim whose probe returned dead is in `items`.
C1_AcceptanceSafety ==
    \A r \in Reqs : CrossReferenced(r) =>
        \A n \in 1..Len(resp[r].items) :
            LET item == resp[r].items[n]
            IN /\ item.url # <<>>
               /\ item.url[1] \in {"http", "http://", "https://"}
               /\ \/ InLookup(item.url, resp[r].verifiedSources)
                  \/ \E m \in 1..Len(calls[r]) :
                        calls[r][m].i = item.id.i /\ calls[r][m].alive
               /\ ~\E m \in 1..Len(calls[r]) :
                        calls[r][m].i = item.id.i /\ ~calls[r][m].alive

\* A response that accepted one claim by lookup and one by a live probe, and
\* rejected a dead one.
C1_Witness ==
    /\ CrossReferenced("r1")
    /\ \E n \in 1..Len(resp["r1"].items) :
          InLookup(resp["r1"].items[n].url, resp["r1"].verifiedSources)
    /\ \E m \in 1..Len(calls["r1"]) : calls["r1"][m].alive

\* C2: every success response has stats.verified + stats.rejected =
\* stats.totalFound and stats.verified = the length of items.
C2_StatsAddUp ==
    \A r \in Reqs : Answered(r) =>
        /\ resp[r].stats.verified + resp[r].stats.rejected = resp[r].stats.totalFound
        /\ resp[r].stats.verified = Len(resp[r].items)

\* A cross-reference response with accepted and rejected claims.
C2_Witness ==
    /\ CrossReferenced("r1")
    /\ resp["r1"].stats.verified >= 1
    /\ resp["r1"].stats.rejected >= 1

\* C3: in every success response each candidate recovered from the model's
\* array is either in items or itemized (title, reason, URL) in the rejection
\* section of rawResponse, and never both.
C3_NoClaimDropped ==
    \A r \in Reqs : Answered(r) =>
        /\ resp[r].path # "fallback" =>
              Len(resp[r].items) + Cardinality(RejectedParts(resp[r].rawResponse))
                = Len(CandidatesOf(r))
        /\ \A k \in 0..(Len(CandidatesOf(r)) - 1) :
              (Occurs(resp[r].items, k) = 1) # (Occurs(loc[r].rejectedItems, k) = 1)
        /\ \A n \in 1..Len(loc[r].rejectedItems) :
              RejectedPart(loc[r].rejectedItems[n]) \in Range(resp[r].rawResponse)

\* url begins with an http(s) scheme token.
HasHttpScheme(url) == url # <<>> /\ url[1] \in {"http://", "https://"}

\* C4: a candidate whose url is empty or does not begin with "http://" or
\* "https://" is rejected with the No valid URL note, is not in items, and
\* verifyUrl is never called for it.
C4_NoUrlRejected ==
    \A r \in Reqs : \A k \in 0..(loc[r].i - 1) :
        LET it == CandidatesOf(r)[k + 1]
        IN (~raises(it) /\ ~HasHttpScheme(it.url)) =>
             /\ \E n \in 1..Len(loc[r].rejectedItems) :
                   /\ loc[r].rejectedItems[n].id.i = k
                   /\ loc[r].rejectedItems[n].verificationNote = NoteNoUrl
             /\ Occurs(loc[r].verifiedItems, k) = 0
             /\ ~Probed(r, k)

\* The candidate of index k of r was handled by the loop and did not raise.
Handled(r, k) == k < loc[r].i /\ ~raises(CandidatesOf(r)[k + 1])
BeginsWithHttp(url) == url # <<>> /\ url[1] \in {"http", "http://", "https://"}

\* The item the loop made of candidate k, in list `items`, carries `note`.
Listed(items, k, note) ==
    \E n \in 1..Len(items) : items[n].id.i = k /\ items[n].verificationNote = note

\* C5: a candidate with an http(s) URL whose raw URL or host+path key equals a
\* citation's raw URL or host+path key is Confirmed (verified, accepted) and
\* verifyUrl is never called for it, whatever its domain.
C5_StaticMatchConfirmed ==
    \A r \in Reqs : \A k \in 0..(Len(CandidatesOf(r)) - 1) :
        LET it == CandidatesOf(r)[k + 1]
        IN (~raises(it) /\ BeginsWithHttp(it.url) /\ InLookup(it.url, CitationsOf(r))) =>
             /\ ~Probed(r, k)
             /\ Handled(r, k) =>
                  /\ Listed(loc[r].verifiedItems, k, NoteConfirmed)
                  /\ \A n \in 1..Len(loc[r].verifiedItems) :
                        loc[r].verifiedItems[n].id.i = k => loc[r].verifiedItems[n].verified
                  /\ Occurs(loc[r].rejectedItems, k) = 0
             /\ CrossReferenced(r) => Listed(resp[r].items, k, NoteConfirmed)

\* A response in which a candidate matched a citation by its host+path key
\* only, on a cited domain, while an earlier candidate was probed.
C5_Witness ==
    /\ CrossReferenced("r1")
    /\ Len(calls["r1"]) = 1
    /\ \E n \in 1..Len(resp["r1"].items) :
          LET item == resp["r1"].items[n]
          IN /\ item.verificationNote = NoteConfirmed
             /\ item.id.i = 1
             /\ \A c \in Range(resp["r1"].verifiedSources) : c.url # item.url
             /\ DomainCited(item.url, resp["r1"].verifiedSources)

\* C6: a candidate with an http(s) URL that is not statically matched and whose
\* probe returned dead is in the rejected list, as likely fabricated when its
\* domain is no citation's source domain, as not responding when it is.
C6_DeadProbeLabels ==
    \A r \in Reqs : \A m \in 1..Len(calls[r]) :
        LET k == calls[r][m].i
            url == CandidatesOf(r)[k + 1].url
            note == IF DomainCited(url, CitationsOf(r))
                    THEN NoteRejectedDead ELSE NoteRejectedFabricated
        IN (~calls[r][m].alive /\ ~InLookup(url, CitationsOf(r))) =>
             /\ Listed(loc[r].rejectedItems, k, note)
             /\ Occurs(loc[r].verifiedItems, k) = 0
             /\ CrossReferenced(r) =>
                  \E n \in RejectedParts(resp[r].rawResponse) :
                      /\ resp[r].rawResponse[n].url = url
                      /\ resp[r].rawResponse[n].note = note

\* Two dead probes in one response, one on a cited domain and one on an
\* unknown domain whose stage 1 failed and whose stage 2 answered 404.
C6_Witness ==
    /\ CrossReferenced("r1")
    /\ Len(calls["r1"]) = 2
    /\ \A m \in 1..2 : ~calls["r1"][m].alive
    /\ DomainCited(calls["r1"][1].url, CitationsOf("r1"))
    /\ ~DomainCited(calls["r1"][2].url, CitationsOf("r1"))
    /\ lastFetch["r1"] = [i |-> 1, method |-> "GET", outcome |-> 404]

\* C7: verifyUrl always resolves to a boolean; a call whose two stages both
\* failed resolves to dead; and a request that started a probe never answers
\* with an error response.
C7_VerifyUrlTotal ==
    \A r \in Reqs :
        /\ \A m \in 1..Len(calls[r]) : calls[r][m].alive \in BOOLEAN
        /\ (lastFetch[r].method = "GET" /\ lastFetch[r].outcome = 0) =>
              /\ calls[r] # <<>>
              /\ calls[r][Len(calls[r])].i = lastFetch[r].i
              /\ ~calls[r][Len(calls[r])].alive
        /\ (calls[r] # <<>> \/ inflight[r] # {}) => resp[r].status \in {0, 200}
        /\ (pc[r] = "done" /\ calls[r] # <<>>) => resp[r].status = 200

\* A request answered after the last probe failed in both stages on a URL
\* that fetch can request.
C7_Witness ==
    /\ Answered("r1")
    /\ lastFetch["r1"].method = "GET"
    /\ lastFetch["r1"].outcome = 0
    /\ Fetchable(calls["r1"][Len(calls["r1"])].url)

\* C8: at most one verifyUrl call of a request is in flight, and while the
\* probe of candidate k is in flight every earlier candidate has been placed in
\* the accepted or the rejected list and every earlier probe has resolved.
C8_SerialProbes ==
    \A r \in Reqs :
        /\ Cardinality(inflight[r]) <= 1
        /\ \A c \in inflight[r] :
              LET k == c.item.id.i
              IN /\ pc[r] = "probe"
                 /\ loc[r].i = k
                 /\ Len(loc[r].verifiedItems) + Len(loc[r].rejectedItems) = k
                 /\ \A j \in 0..(k - 1) :
                       Occurs(loc[r].verifiedItems, j) + Occurs(loc[r].rejectedItems, j) = 1
                 /\ \A m \in 1..Len(calls[r]) : calls[r][m].i < k

\* The probe of the second candidate is in flight after the first was probed.
C8_Witness ==
    /\ \E c \in inflight["r1"] : c.item.id.i = 1
    /\ Len(calls["r1"]) = 1
    /\ calls["r1"][1].i = 0

\* A text block of the payload holds the no-results sentinel.
HasSentinel(content) ==
    \E n \in 1..Len(content) :
        content[n].type = "text" /\ \E j \in 1..Len(content[n].text) :
            content[n].text[j] = Sentinel

\* C10: when the model text holds the no-results sentinel the response is the
\* success outcome with no items and stats 0/0/0, with the transcript and the
\* extracted citations, and nothing was parsed or probed.
C10_NoResultsShortCircuit ==
    \A r \in Reqs : (Answered(r) /\ HasSentinel(data[r].content)) =>
        /\ resp[r].items = <<>>
        /\ resp[r].stats = Stats(0, 0, 0)
        /\ resp[r].verifiedSources = extractCitations(data[r].content)
        /\ resp[r].rawResponse = rawPartsOf(data[r].content, resp[r].verifiedSources)
        /\ CandidatesOf(r) = <<>>
        /\ calls[r] = <<>>
        /\ inflight[r] = {}

\* A sentinel answer that also holds an array with a candidate, with citations.
C10_Witness ==
    /\ Answered("r1")
    /\ HasSentinel(data["r1"].content)
    /\ resp["r1"].verifiedSources # <<>>
    /\ \E n \in 1..Len(data["r1"].content) :
          \E j \in 1..Len(data["r1"].content[n].text) :
              data["r1"].content[n].text[j].tok = "value"

\* The one element of a set that has one.
The(S) == CHOOSE x \in S : TRUE

\* The response of an invocation that runs alone on locals l from the loop
\* result res, its probes returning `results` in order, while the clock
\* stands still.
RECURSIVE aloneFrom(_, _, _)
aloneFrom(l, res, results) ==
    LET l2 == [l EXCEPT !.i = res.i, !.verifiedItems = res.ver, !.rejectedItems = res.rej]
    IN IF res.st = "end"
       THEN finalResponse([l2 EXCEPT !.rawParts = withRejections(@, res.rej)])
       ELSE IF res.st = "throw" THEN parseFailure(l2)
       ELSE IF results = <<>> THEN NoResponse
       ELSE LET c == CHOOSE c \in res.fl : TRUE
                exists == Head(results).alive
                item == probed(c.item, l.realCitations, exists)
            IN aloneFrom(l2,
                         The(runLoop(l.parsedItems, l.realCitations, res.i + 1,
                                     IF exists THEN push(res.ver, item) ELSE res.ver,
                                     IF exists THEN res.rej ELSE push(res.rej, item),
                                     now, {now}, {})),
                         Tail(results))

\* The response to payload content when the handler runs alone.
AloneResponse(content, results) ==
    LET b == The(beforeLoop(content, now, {now}))
    IN IF b.respond THEN b.resp
       ELSE aloneFrom(b.l,
                      The(runLoop(b.l.parsedItems, b.l.realCitations, 0, <<>>, <<>>,
                                  now, {now}, {})),
                      results)

\* C9: whatever the interleaving of the invocations in flight, the response of
\* each equals the response it gives when run alone on the same upstream
\* payload with the same probe results.
C9_RequestsIsolated ==
    \A r \in Reqs : Answered(r) => resp[r] = AloneResponse(data[r].content, calls[r])

\* Both invocations are suspended in their loops on different payloads, each
\* with one probe resolved and the next in flight.
C9_Witness ==
    /\ pc["r1"] = "probe" /\ pc["r2"] = "probe"
    /\ data["r1"] # data["r2"]
    /\ calls["r1"] # <<>> /\ inflight["r1"] # {}
    /\ calls["r2"] # <<>> /\ inflight["r2"] # {}

\* The text of the payload, as the handler joins it, has no "[" that is
\* followed by a "]", and no sentinel.
NoArrayNoSentinel(content) ==
    LET text == joinNewline(textPartsOf(content))
    IN /\ ~\E j \in 1..Len(text) : text[j] = Sentinel
       /\ ~\E j, k \in 1..Len(text) : j < k /\ text[j] = LBr /\ text[k] = RBr

\* The request was answered without any probe.
NoProbe(r) == calls[r] = <<>> /\ inflight[r] = {} /\ lastFetch[r] = NoFetch

\* The citation has a url and a title (the test of the filter at line 361).
Usable(c) == c.url # <<>> /\ c.title # ""

\* items are claims taken directly from the citations cits, position by position.
DirectFrom(items, cits) ==
    /\ Len(items) = Len(cits)
    /\ \A k \in 1..Len(items) :
          /\ items[k].title = cits[k].title
          /\ items[k].url = cits[k].url
          /\ items[k].verified
          /\ items[k].verificationNote = NoteDirect

\* C11 as stated: when the text holds no array and no sentinel, the response
\* has one item per extracted citation, in citation order, each verified with
\* the note Direct from web search results, no probe was made, and the stats
\* are n/n/0 with n the number of citations.
C11_FallbackOnePerCitation ==
    \A r \in Reqs : (Answered(r) /\ NoArrayNoSentinel(data[r].content)) =>
        /\ DirectFrom(resp[r].items, resp[r].verifiedSources)
        /\ NoProbe(r)
        /\ resp[r].stats = Stats(Len(resp[r].verifiedSources),
                                 Len(resp[r].verifiedSources), 0)

\* C11 amended: when the text holds no array and no sentinel, the response has
\* one item per extracted citation that has a non-empty url and a non-empty
\* title, in citation order, each verified with the note Direct from web search
\* results, no probe was made, and the stats are n/n/0 with n the number of
\* those citations.
C11_FallbackPerUsableCitation ==
    \A r \in Reqs : (Answered(r) /\ NoArrayNoSentinel(data[r].content)) =>
        LET usable == SelectSeq(extractCitations(data[r].content), Usable)
        IN /\ DirectFrom(resp[r].items, usable)
           /\ NoProbe(r)
           /\ resp[r].stats = Stats(Len(usable), Len(usable), 0)
           /\ resp[r].verifiedSources = extractCitations(data[r].content)

\* A fallback response over three citations of which the middle one has no
\* title or no url: two items, in citation order.
C11_Witness ==
    /\ Answered("r1")
    /\ NoArrayNoSentinel(data["r1"].content)
    /\ Len(resp["r1"].verifiedSources) = 3
    /\ Usable(resp["r1"].verifiedSources[1])
    /\ ~Usable(resp["r1"].verifiedSources[2])
    /\ Usable(resp["r1"].verifiedSources[3])
    /\ resp["r1"].verifiedSources[1] # resp["r1"].verifiedSources[3]
    /\ Len(resp["r1"].items) = 2

\* response.json() resolved for invocation r.
Received(r) == data[r] # NoData

\* The text of the payload, as the handler joins it, has a "[" followed by a
\* "]" and no sentinel: an array substring is located.
ArrayLocated(content) ==
    LET text == joinNewline(textPartsOf(content))
    IN /\ ~\E j \in 1..Len(text) : text[j] = Sentinel
       /\ \E j, k \in 1..Len(text) : j < k /\ text[j] = LBr /\ text[k] = RBr

\* The located array substring of the payload, parsed.
ParsedArray(content) == JSONparse(arrayMatch(cleanedOf(joinNewline(textPartsOf(content)))))

\* The located substring is no JSON, or an element of the array raises when
\* the loop processes it.
ParseOrElementFails(content) ==
    \/ ~ParsedArray(content).ok
    \/ \E k \in 1..Len(ParsedArray(content).vals) : raises(ParsedArray(content).vals[k])

\* The payload is one the handler reached its parsing step with: no error
\* member, and tool-result blocks that hold result lists.
Processed(r) ==
    Received(r) /\ ~data[r].error /\ ~extractCitationsThrows(data[r].content)

\* C12: when the located array substring fails structured parsing, or an
\* element raises while it is processed, the request ends with a success
\* response with items = [], stats 0/0/0, the extracted citations and the
\* transcript built before parsing; it never ends as an error response.
C12_ParseFailureEmptySuccess ==
    \A r \in Reqs :
        (Processed(r) /\ ArrayLocated(data[r].content)
           /\ ParseOrElementFails(data[r].content)) =>
            /\ resp[r].status \in {0, 200}
            /\ pc[r] = "done" =>
                  /\ resp[r].status = 200
                  /\ resp[r].items = <<>>
                  /\ resp[r].stats = Stats(0, 0, 0)
                  /\ resp[r].verifiedSources = extractCitations(data[r].content)
                  /\ resp[r].rawResponse =
                        rawPartsOf(data[r].content, extractCitations(data[r].content))

\* A response sent from the catch after a candidate was probed and rejected
\* and the next element raised, with citations in the payload.
C12_Witness ==
    /\ Answered("r1")
    /\ ArrayLocated(data["r1"].content)
    /\ ParsedArray(data["r1"].content).ok
    /\ Len(calls["r1"]) = 1
    /\ loc["r1"].rejectedItems # <<>>
    /\ resp["r1"].verifiedSources # <<>>
    /\ resp["r1"].items = <<>>
    /\ Len(CandidatesOf("r1")) = 2
    /\ raises(CandidatesOf("r1")[2])

\* C13: a payload with an error member always yields the 502 error response,
\* without items, stats or sources, and no citation is extracted and no probe
\* made for it; a payload without error member always yields a success
\* response, also when no claim is accepted; so 502 is sent exactly for the
\* payloads with an error member.
C13_UpstreamErrorDistinct ==
    \A r \in Reqs : (Received(r) /\ pc[r] = "done") =>
        /\ data[r].error =>
              /\ resp[r] = Failure(502, "upstream-error")
              /\ loc[r] = NoLocals
              /\ NoProbe(r)
        /\ ~data[r].error =>
              /\ resp[r].status = 200
              /\ resp[r].stats.verified + resp[r].stats.rejected = resp[r].stats.totalFound

\* The contents of the tool-result blocks of a payload, one after the other.
RECURSIVE NestedItems(_)
NestedItems(content) ==
    IF content = <<>> THEN <<>>
    ELSE NestedItems(SubSeq(content, 1, Len(content) - 1))
         \o (IF content[Len(content)].type = "web_search_tool_result"
             THEN content[Len(content)].content ELSE <<>>)

IsSearchResult(item) == item.type = "web_search_result"

\* The search-result items nested in the tool-result blocks, in source order.
NestedResults(content) == SelectSeq(NestedItems(content), IsSearchResult)

\* C14: the citation list has exactly one Citation per nested search-result
\* item of the tool-result blocks, in source order, duplicates kept, with the
\* title and url of its item; the payload is left as received; and the list
\* the handler holds while it cross-references and probes, and the
\* verifiedSources of every success response, is exactly this list.
C14_CitationsPure ==
    \A r \in Reqs : Processed(r) =>
        LET cits == extractCitations(data[r].content)
            results == NestedResults(data[r].content)
        IN /\ Len(cits) = Len(results)
           /\ \A k \in 1..Len(cits) :
                 /\ cits[k].title = results[k].title
                 /\ cits[k].url = results[k].url
                 /\ cits[k].source = extractDomain(results[k].url)
           /\ data[r] \in Payloads
           /\ loc[r].realCitations = cits
           /\ Answered(r) => resp[r].verifiedSources = cits

\* A success response whose sources are two equal citations from different
\* tool-result blocks, while a nested item that is no search result was
\* skipped.
C14_Witness ==
    /\ Answered("r1")
    /\ Len(resp["r1"].verifiedSources) = 2
    /\ resp["r1"].verifiedSources[1] = resp["r1"].verifiedSources[2]
    /\ Len(NestedItems(data["r1"].content)) = 3
    /\ \E k \in 1..Len(data["r1"].content) :
          data["r1"].content[k].type = "web_search_tool_result"
          /\ Len(data["r1"].content[k].content) = 1

\* The claims of a list stand in the order of their candidates, and each is
\* the claim of the candidate at its index.
InCandidateOrder(items, candidates) ==
    /\ \A m, n \in 1..Len(items) : m < n => items[m].id.i < items[n].id.i
    /\ \A n \in 1..Len(items) :
          /\ items[n].id.i + 1 \in 1..Len(candidates)
          /\ items[n].title = candidates[items[n].id.i + 1].title
          /\ items[n].url = candidates[items[n].id.i + 1].url

\* The entries of the rejection section of a transcript, in transcript order.
IsRejectedPart(part) == part.kind = "rejected"
RejectedSection(raw) == SelectSeq(raw, IsRejectedPart)

\* C15: the accepted list keeps the order of the candidate array, whatever
\* the mix of Confirmed and probed outcomes and the order and stage in which
\* probes answer, and so does the rejected list, in the handler and in the
\* items and the rejection section of the response.
C15_OrderPreserved ==
    \A r \in Reqs :
        /\ InCandidateOrder(loc[r].verifiedItems, CandidatesOf(r))
        /\ InCandidateOrder(loc[r].rejectedItems, CandidatesOf(r))
        /\ CrossReferenced(r) =>
              /\ resp[r].items = loc[r].verifiedItems
              /\ RejectedSection(resp[r].rawResponse)
                    = [n \in 1..Len(loc[r].rejectedItems) |->
                         RejectedPart(loc[r].rejectedItems[n])]

\* A response with two accepted claims: the first verified by a probe that
\* needed its second stage, the second confirmed from the citations.
C15_Witness ==
    /\ CrossReferenced("r1")
    /\ Len(resp["r1"].items) = 2
    /\ resp["r1"].items[1].verificationNote \in {NoteVerifiedLive, NoteVerifiedKnown}
    /\ resp["r1"].items[2].verificationNote = NoteConfirmed
    /\ lastFetch["r1"].method = "GET"

\* C16: every success response carries a transcript that begins with the
\* parts built from the payload, also when both lists are empty; it holds the
\* rejection section (header and one entry per rejected claim) if and only if
\* at least one claim was rejected, and the citation audit trail if and only
\* if at least one citation was extracted.
C16_TranscriptSections ==
    \A r \in Reqs : Answered(r) =>
        LET raw == resp[r].rawResponse
            built == rawPartsOf(data[r].content, extractCitations(data[r].content))
        IN /\ Len(raw) >= Len(built)
           /\ SubSeq(raw, 1, Len(built)) = built
           /\ (RejectedHeader \in Range(raw)) <=> (loc[r].rejectedItems # <<>>)
           /\ Len(RejectedSection(raw)) = Len(loc[r].rejectedItems)
           /\ (CitationHeader \in Range(raw)) <=> (extractCitations(data[r].content) # <<>>)
           /\ Cardinality({ n \in 1..Len(raw) : raw[n].kind = "citation" })
                 = Len(extractCitations(data[r].content))

\* The claims invocation r has produced: those of its two lists, or those of
\* the fallback response.
ClaimsOf(r) ==
    IF resp[r].path = "fallback" THEN resp[r].items
    ELSE loc[r].verifiedItems \o loc[r].rejectedItems

\* C17: any two distinct claims produced for the same response, accepted or
\* rejected, cross-referenced or synthesized by the fallback, have different
\* id strings, also when the clock moved between them.
C17_IdsUnique ==
    \A r \in Reqs : \A m, n \in 1..Len(ClaimsOf(r)) :
        m # n => idString(ClaimsOf(r)[m].id) # idString(ClaimsOf(r)[n].id)

\* A cross-reference response with three claims, two of which were created at
\* the same clock value and the third, after a probe, at a later one.
C17_Witness ==
    /\ CrossReferenced("r1")
    /\ Len(ClaimsOf("r1")) = 3
    /\ \E m, n \in 1..3 : m # n /\ ClaimsOf("r1")[m].id.t = ClaimsOf("r1")[n].id.t
    /\ \E m, n \in 1..3 : ClaimsOf("r1")[m].id.t # ClaimsOf("r1")[n].id.t

\* The number of calls of checkRateLimit(ip) that returned true in the 60
\* seconds that begin with the admission of index j.
AdmittedWithinMinute(ip, j) ==
    Cardinality({ k \in j..Len(admits[ip]) : admits[ip][k] - admits[ip][j] < RateWindowMs })

\* C18: for every client IP and every interval of 60 seconds, at most 5 calls
\* of checkRateLimit for that IP made in the interval return true, whatever
\* the other requests in flight and the requests of other IPs.
C18_AtMostFivePerMinute ==
    \A ip \in IPs : \A j \in 1..Len(admits[ip]) : AdmittedWithinMinute(ip, j) <= RateMax

\* The verifyUrl call of r that resolved last.
LastCall(r) == calls[r][Len(calls[r])]

\* A status of the 2xx class.
Is2xx(status) == status \in 200..299

\* C19: stage 2 (the ranged GET) is outstanding exactly when stage 1 (HEAD)
\* of the same call raised or timed out; a stage-1 response of any status
\* resolves the call, alive iff 2xx, 403 or 405, and leaves no stage 2
\* behind; a stage-2 response resolves it alive iff 2xx, 206 or 403 (405 is
\* dead), a stage-2 exception resolves it dead; so a call makes at most the
\* two requests HEAD then GET.
C19_TwoStageProtocol ==
    \A r \in Reqs :
        LET f == lastFetch[r]
        IN /\ \A c \in inflight[r] :
                 /\ c.stage \in {"HEAD", "GET"}
                 /\ c.stage = "GET" <=>
                       (f.method = "HEAD" /\ f.outcome = 0 /\ f.i = c.item.id.i)
           /\ (f.method = "HEAD" /\ f.outcome = 0) =>
                 /\ \E c \in inflight[r] : c.stage = "GET" /\ c.item.id.i = f.i
                 /\ \A m \in 1..Len(calls[r]) : calls[r][m].i # f.i
           /\ (f.method = "HEAD" /\ f.outcome # 0) =>
                 /\ calls[r] # <<>>
                 /\ LastCall(r).i = f.i
                 /\ LastCall(r).alive <=> (Is2xx(f.outcome) \/ f.outcome \in {403, 405})
                 /\ \A c \in inflight[r] : c.item.id.i # f.i
           /\ f.method = "GET" =>
                 /\ calls[r] # <<>>
                 /\ LastCall(r).i = f.i
                 /\ LastCall(r).alive <=>
                       (f.outcome # 0 /\ (Is2xx(f.outcome) \/ f.outcome \in {206, 403}))
                 /\ f.outcome = 405 => ~LastCall(r).alive
                 /\ \A c \in inflight[r] : c.item.id.i # f.i
           /\ \A m, n \in 1..Len(calls[r]) : m # n => calls[r][m].i # calls[r][n].i

\* The first probe was answered alive, then stage 1 of the second probe
\* failed and its stage 2 was answered 405: dead.
C19_Witness ==
    /\ Len(calls["r1"]) = 2
    /\ calls["r1"][1].alive
    /\ ~calls["r1"][2].alive
    /\ lastFetch["r1"] = [i |-> 1, method |-> "GET", outcome |-> 405]

\* C20: every probe terminates, so once the upstream call has returned the
\* request eventually sends its response, and it sends exactly one: every
\* verifyUrl call in flight eventually resolves, a request whose payload
\* arrived eventually is done, and a response once sent is never replaced.
C20_ProbesTerminate ==
    /\ \A k \in 0..(MaxCand - 1) :
          (\E c \in inflight["r1"] : c.item.id.i = k)
             ~> (\E m \in 1..Len(calls["r1"]) : calls["r1"][m].i = k)
    /\ Received("r1") ~> (pc["r1"] = "done" /\ resp["r1"] # NoResponse)
    /\ [][resp["r1"] # NoResponse => resp'["r1"] = resp["r1"]]_vars

\* A request answered after two probes that both were dead, the last with
\* both stages failed on a URL that can be fetched.
C20_Witness ==
    /\ Answered("r1")
    /\ Len(calls["r1"]) = 2
    /\ \A m \in 1..2 : ~calls["r1"][m].alive
    /\ lastFetch["r1"] = [i |-> 1, method |-> "GET", outcome |-> 0]
    /\ Fetchable(calls["r1"][2].url)

\* The claims of `items` as (index, title, url, verified), in order.
Membership(items) ==
    [n \in 1..Len(items) |->
        <<items[n].id.i, items[n].title, items[n].url, items[n].verified>>]

\* The claims itemized in the rejection section of a transcript, as
\* (title, url), in order, without their notes.
RejectedMembership(raw) ==
    LET sec == SelectSeq(raw, IsRejectedPart)
    IN [n \in 1..Len(sec) |-> <<sec[n].title, sec[n].url>>]

\* The verifyUrl calls of r as (index, url), in order, without their verdicts.
CallsIssued(r) == [m \in 1..Len(calls[r]) |-> <<calls[r][m].i, calls[r][m].url>>]

\* Invocation r is over and reached the loop with a parsed candidate array.
LoopDone(r) ==
    /\ pc[r] = "done" /\ inflight[r] = {}
    /\ Processed(r) /\ ArrayLocated(data[r].content) /\ ParsedArray(data[r].content).ok

\* Runs r and q got the same text, every candidate is in the citation lookup
\* of both or of neither, and verifyUrl returned the same for every candidate
\* both probed: whatever else differs is in the citations' domains.
DifferInDomainsOnly(r, q) ==
    /\ textPartsOf(data[r].content) = textPartsOf(data[q].content)
    /\ \A k \in 1..Len(CandidatesOf(r)) :
          ~raises(CandidatesOf(r)[k]) =>
              (InLookup(CandidatesOf(r)[k].url, CitationsOf(r))
                 <=> InLookup(CandidatesOf(r)[k].url, CitationsOf(q)))
    /\ \A m \in 1..Len(calls[r]), n \in 1..Len(calls[q]) :
          calls[r][m].i = calls[q][n].i => calls[r][m].alive = calls[q][n].alive

\* C21: a probed claim is accepted exactly when verifyUrl returned alive,
\* whether or not its domain is a citation's source domain; and two runs that
\* differ only in which domains the citations are on issue the same verifyUrl
\* calls, one per probed claim, and answer with the same accepted and rejected
\* claims and the same stats.
C21_DomainAffectsNoteOnly ==
    /\ \A r \in Reqs : \A m \in 1..Len(calls[r]) :
          LET k == calls[r][m].i
          IN /\ Occurs(loc[r].verifiedItems, k) = (IF calls[r][m].alive THEN 1 ELSE 0)
             /\ Occurs(loc[r].rejectedItems, k) = (IF calls[r][m].alive THEN 0 ELSE 1)
             /\ CrossReferenced(r) =>
                   Occurs(resp[r].items, k) = (IF calls[r][m].alive THEN 1 ELSE 0)
             /\ \A n \in 1..Len(calls[r]) : calls[r][n].i = k => n = m
    /\ (LoopDone("r1") /\ LoopDone("r2") /\ DifferInDomainsOnly("r1", "r2")) =>
          /\ CallsIssued("r1") = CallsIssued("r2")
          /\ resp["r1"].status = resp["r2"].status
          /\ Membership(resp["r1"].items) = Membership(resp["r2"].items)
          /\ RejectedMembership(resp["r1"].rawResponse)
                = RejectedMembership(resp["r2"].rawResponse)
          /\ resp["r1"].stats = resp["r2"].stats

\* Two answered runs over the same two candidates, probed alive and dead in
\* both: in the first run the first candidate's domain is cited and the
\* second's is not, in the second run it is the other way round.
C21_Witness ==
    /\ CrossReferenced("r1") /\ CrossReferenced("r2")
    /\ LoopDone("r1") /\ LoopDone("r2") /\ DifferInDomainsOnly("r1", "r2")
    /\ Len(calls["r1"]) = 2
    /\ calls["r1"][1].alive /\ ~calls["r1"][2].alive
    /\ DomainCited(calls["r1"][1].url, CitationsOf("r1"))
    /\ ~DomainCited(calls["r1"][1].url, CitationsOf("r2"))
    /\ ~DomainCited(calls["r1"][2].url, CitationsOf("r1"))
    /\ DomainCited(calls["r1"][2].url, CitationsOf("r2"))
    /\ resp["r1"].rawResponse # resp["r2"].rawResponse

\* The host with a leading "www." removed and nothing else changed.
LeadingWwwStripped(host) ==
    IF host # <<>> /\ host[1] = "www." THEN Tail(host) ELSE host

\* C22: the source domain of every citation is, for a parsable URL, the
\* lowercased host with a leading "www." removed and nothing else changed (a
\* "www." elsewhere in the host is kept), and "Unknown" for an unparsable
\* URL; extractDomain never throws, so the request is answered with success.
C22_LeadingWwwOnly ==
    \A r \in Reqs : (pc[r] = "done" /\ Processed(r)) =>
        /\ resp[r].status = 200
        /\ Len(resp[r].verifiedSources) = Len(NestedResults(data[r].content))
        /\ \A n \in 1..Len(resp[r].verifiedSources) :
              LET c == resp[r].verifiedSources[n]
              IN c.source = IF Parses(c.url)
                            THEN LeadingWwwStripped(hostname(c.url))
                            ELSE Unknown

\* C23: every claim of every response has its severity among critical, high,
\* medium, low and its category in the category vocabulary, whatever the
\* upstream model answered: a missing value is replaced by the default and a
\* value outside the enumeration does not reach the response.
C23_EnumsOnly ==
    \A r \in Reqs : pc[r] = "done" =>
        \A n \in 1..Len(resp[r].items) :
            /\ resp[r].items[n].severity \in Severities
            /\ resp[r].items[n].category \in Categories

\* The notes of the accepting and of the rejecting outcomes of the loop.
AcceptNotes == {NoteConfirmed, NoteVerifiedKnown, NoteVerifiedLive}
RejectNotes == {NoteNoUrl, NoteRejectedDead, NoteRejectedFabricated}

\* Sequence s is the beginning of sequence t.
IsPrefix(s, t) == Len(s) <= Len(t) /\ SubSeq(t, 1, Len(s)) = s

\* The claims of the loop of r: a claim whose probe is outstanding is as it
\* was created (not verified, empty note); a claim in the accepted list is
\* verified with an accepting note, one in the rejected list is not verified
\* and has a rejecting note; no candidate has two claims in the lists.
OneOutcomeEach(r) ==
    /\ \A c \in inflight[r] : ~c.item.verified /\ c.item.verificationNote = ""
    /\ \A n \in 1..Len(loc[r].verifiedItems) :
          /\ loc[r].verifiedItems[n].verified
          /\ loc[r].verifiedItems[n].verificationNote \in AcceptNotes
    /\ \A n \in 1..Len(loc[r].rejectedItems) :
          /\ ~loc[r].rejectedItems[n].verified
          /\ loc[r].rejectedItems[n].verificationNote \in RejectNotes
    /\ \A k \in 0..(Len(CandidatesOf(r)) - 1) :
          Occurs(loc[r].verifiedItems, k) + Occurs(loc[r].rejectedItems, k) <= 1

\* A claim once placed in a list of r stays there as it is, for as long as
\* the invocation lasts: the lists only grow at their end.
ListsOnlyGrow(r) ==
    pc'[r] # "idle" =>
        /\ IsPrefix(loc[r].verifiedItems, loc'[r].verifiedItems)
        /\ IsPrefix(loc[r].rejectedItems, loc'[r].rejectedItems)

\* The response of the cross-reference path carries the lists as the loop
\* left them.
ListsAsLeft(r) ==
    CrossReferenced(r) =>
        /\ resp[r].items = loc[r].verifiedItems
        /\ RejectedSection(resp[r].rawResponse)
              = [n \in 1..Len(loc[r].rejectedItems) |-> RejectedPart(loc[r].rejectedItems[n])]

\* C24 as stated: every claim gets its verified/verificationNote pair once
\* and keeps it, and in every response every accepted claim is verified with
\* a Confirmed or Verified note, every rejected claim is not verified and has
\* a REJECTED note.
C24_EveryAcceptedConfirmedOrVerified ==
    /\ [](\A r \in Reqs :
             /\ OneOutcomeEach(r)
             /\ ListsAsLeft(r)
             /\ Answered(r) =>
                   \A n \in 1..Len(resp[r].items) :
                       /\ resp[r].items[n].verified
                       /\ resp[r].items[n].verificationNote \in AcceptNotes)
    /\ [][\A r \in Reqs : ListsOnlyGrow(r)]_vars

\* C24 amended: every claim built by the cross-reference loop gets its
\* verified/verificationNote pair once and keeps it; in a response of the
\* cross-reference path every accepted claim is verified with a Confirmed or
\* Verified note and every rejected claim is not verified and has a REJECTED
\* note; the claims of a fallback response are created verified with the note
\* Direct from web search results; no claim of any response has an empty note.
C24_PairAssignedOnce ==
    /\ [](\A r \in Reqs :
             /\ OneOutcomeEach(r)
             /\ ListsAsLeft(r)
             /\ Answered(r) =>
                   \A n \in 1..Len(resp[r].items) :
                       /\ resp[r].items[n].verified
                       /\ resp[r].items[n].verificationNote # ""
                       /\ resp[r].items[n].verificationNote \in
                             (IF resp[r].path = "cross-reference"
                              THEN AcceptNotes ELSE {NoteDirect})
             /\ Answered(r) =>
                   \A n \in RejectedParts(resp[r].rawResponse) :
                       resp[r].rawResponse[n].note \in RejectNotes)
    /\ [][\A r \in Reqs : ListsOnlyGrow(r)]_vars

\* A response of the cross-reference path sent after three candidates were
\* handled: one accepted after its probe, then, the clock having moved, one
\* rejected for its URL and one rejected after its probe.
C24_Witness ==
    /\ CrossReferenced("r1")
    /\ now > 0
    /\ Len(resp["r1"].items) = 1
    /\ resp["r1"].items[1].verificationNote = NoteVerifiedKnown
    /\ Len(loc["r1"].rejectedItems) = 2
    /\ loc["r1"].rejectedItems[1].verificationNote = NoteNoUrl
    /\ loc["r1"].rejectedItems[2].verificationNote = NoteRejectedFabricated
    /\ loc["r1"].rejectedItems[1].id.t > resp["r1"].items[1].id.t

\* The index at which the bracket opened before index k of s closes, depth
\* brackets being open at k; 0 when it never closes.
RECURSIVE ClosingIndex(_, _, _)
ClosingIndex(s, k, depth) ==
    IF k > Len(s) THEN 0
    ELSE IF s[k] = LBr THEN ClosingIndex(s, k + 1, depth + 1)
    ELSE IF s[k] = RBr
         THEN (IF depth = 1 THEN k ELSE ClosingIndex(s, k + 1, depth - 1))
    ELSE ClosingIndex(s, k + 1, depth)

\* The first top-level bracketed substring of s: from the first "[" to the
\* "]" that closes that bracket; <<>> when there is none.
FirstBracketGroup(s) ==
    LET ls == { k \in 1..Len(s) : s[k] = LBr }
        first == CHOOSE k \in ls : \A j \in ls : k <= j
    IN IF ls = {} THEN <<>>
       ELSE IF ClosingIndex(s, first + 1, 1) = 0 THEN <<>>
       ELSE SubSeq(s, first, ClosingIndex(s, first + 1, 1))

\* C25: the substring handed to the parser is the first top-level bracketed
\* substring of the cleaned text, from the first "[" to the "]" that closes
\* it: when that substring is a JSON array, its elements are the candidates
\* of the loop, and the request ends on the parse-failure path only when that
\* substring is no JSON array (or an element raises).
C25_FirstBracketGroupParsed ==
    \A r \in Reqs :
        (pc[r] = "done" /\ Processed(r) /\ ArrayLocated(data[r].content)) =>
            LET g == FirstBracketGroup(cleanedOf(joinNewline(textPartsOf(data[r].content))))
            IN (g # <<>> /\ JSONparse(g).ok) =>
                  /\ CandidatesOf(r) = JSONparse(g).vals
                  /\ (\A k \in 1..Len(JSONparse(g).vals) : ~raises(JSONparse(g).vals[k]))
                        => resp[r].path = "cross-reference"

\* C26: a candidate whose http-prefixed URL does not parse is handled by the
\* unknown-domain branch, whatever the citations are: after its probe it
\* carries the note URL responds when verifyUrl returned alive and the note
\* likely fabricated when it returned dead, never a note of the known-domain
\* branch.
C26_UnknownIsNoDomain ==
    \A r \in Reqs : \A m \in 1..Len(calls[r]) :
        LET k == calls[r][m].i
        IN ~Parses(calls[r][m].url) =>
              /\ ~Listed(loc[r].verifiedItems, k, NoteVerifiedKnown)
              /\ ~Listed(loc[r].rejectedItems, k, NoteRejectedDead)
              /\ IF calls[r][m].alive
                 THEN Listed(loc[r].verifiedItems, k, NoteVerifiedLive)
                 ELSE Listed(loc[r].rejectedItems, k, NoteRejectedFabricated)

\* The step answers request r with 429.
Rejects429(r) == pc[r] = "idle" /\ resp'[r].status = 429

\* C27: a request rejected by the rate limiter does nothing but send its 429
\* response: it makes no upstream call and no probe and leaves the limiter's
\* records as they are (window start and count of its own IP included), while
\* a request that is not rejected changes the record of its IP; every record
\* has a count from 1 to 5.
C27_RejectionHasNoEffect ==
    /\ [](\A ip \in IPs :
             rateLimits[ip] # NoRecord => rateLimits[ip].count \in 1..RateMax)
    /\ [][\A r \in Reqs :
             /\ Rejects429(r) =>
                   /\ rateLimits' = rateLimits
                   /\ admits' = admits
                   /\ pc' = [pc EXCEPT ![r] = "done"]
                   /\ resp' = [resp EXCEPT ![r] = Failure(429, "rate-limit")]
                   /\ UNCHANGED <<now, data, loc, inflight, calls, lastFetch,
                                  tdecStore, tdecRes>>
             /\ (pc[r] = "idle" /\ pc'[r] # "idle" /\ ~Rejects429(r)) =>
                   rateLimits' # rateLimits]_vars

\* A sixth request of one client in a window was rejected while the record
\* of the other client is in a later window.
C27_Witness ==
    /\ \E r \in Reqs : pc[r] = "done" /\ resp[r].status = 429
    /\ rateLimits["ip1"].count = RateMax
    /\ rateLimits["ip2"] # NoRecord
    /\ rateLimits["ip2"].windowStart > rateLimits["ip1"].windowStart
    /\ now > rateLimits["ip2"].windowStart

\* C28: the cleanup timer is not observable through checkRateLimit: at every
\* moment a call for any client returns what it would return had the timer
\* never fired, and a record the timer deleted is one whose window has
\* expired, which the next call resets.
C28_CleanupUnobservable ==
    \A ip \in IPs :
        /\ checkRateLimit(rateLimits, ip, now).admitted
              = checkRateLimit(uncleaned, ip, now).admitted
        /\ checkRateLimit(rateLimits, ip, now).limits[ip]
              = checkRateLimit(uncleaned, ip, now).limits[ip]
        /\ rateLimits[ip] # uncleaned[ip] =>
              /\ rateLimits[ip] = NoRecord
              /\ now - uncleaned[ip].windowStart > RateWindowMs

\* The timer deleted the record of a client that had used up its window,
\* and the other client was admitted afterwards.
C28_Witness ==
    /\ rateLimits["ip1"] = NoRecord
    /\ uncleaned["ip1"] # NoRecord
    /\ uncleaned["ip1"].count = RateMax
    /\ rateLimits["ip2"] # NoRecord
    /\ rateLimits["ip2"].windowStart = now
    /\ pc["r1"] = "upstream"

\* The number of records of all datasets of store, counted as the pairs of
\* a dataset and a position in its records.
RecordCount(store) ==
    Cardinality(UNION { { <<ty, k>> : k \in 1..Len(store[ty].records) } : ty \in Datasets })

\* The body is one the upload endpoint accepts.
Acceptable(body) ==
    body.key = UPLOAD_KEY /\ body.type \in Datasets /\ body.records.isArray

\* C29: an upload with a wrong key, an invalid type or records that are no
\* array is answered with an error and leaves the whole store as it is; an
\* accepted upload replaces records, lastUpdated and statewide of the named
\* dataset and leaves the other datasets as they are; the store changes in no
\* other step; and the stats endpoint's totalLocalRecords is the number of
\* records of all datasets.
C29_UploadAllOrNothing ==
    /\ [](tdecRes.endpoint = "stats" =>
             tdecRes.totalLocalRecords = RecordCount(tdecStore))
    /\ [][/\ tdecStore' # tdecStore =>
                (tdecRes'.endpoint = "upload" /\ tdecRes'.status = 200)
          /\ (tdecRes' # tdecRes /\ tdecRes'.endpoint = "upload") =>
                LET body == tdecRes'.body
                IN IF Acceptable(body)
                   THEN /\ tdecRes'.status = 200
                        /\ tdecRes'.stored = Len(body.records.items)
                        /\ tdecStore'[body.type].records = body.records.items
                        /\ tdecStore'[body.type].lastUpdated = now
                        /\ tdecStore'[body.type].statewide =
                              (IF body.statewide # 0 THEN body.statewide
                               ELSE Len(body.records.items))
                        /\ \A ty \in Datasets \ {body.type} :
                              tdecStore'[ty] = tdecStore[ty]
                   ELSE /\ tdecRes'.status \in {400, 403}
                        /\ tdecStore' = tdecStore]_vars

\* The stats were read after every dataset was uploaded, some with one
\* record and some with two.
C29_Witness ==
    /\ tdecRes.endpoint = "stats"
    /\ \A ty \in Datasets : tdecStore[ty].lastUpdated # Null
    /\ \E ty \in Datasets : Len(tdecStore[ty].records) = 1
    /\ \E ty \in Datasets : Len(tdecStore[ty].records) = 2
    /\ tdecRes.totalLocalRecords > Cardinality(Datasets)

====
